---- MODULE Spec2Model ----
(***************************************************************************)
(* Backtest result aggregation and scoring engine of the FreqTrade rating  *)
(* system: the three rating writers (strategy_rating_system.py,            *)
(* strategy_rating_system_postgresql.py, strategy_rating_system_standalone *)
(* .py), the ranking readers (rating_web_interface*.py) and the API        *)
(* server's query and backtest handlers (rating_api_server.py).            *)
(* The scorer of jesse/services/ninja_score.py is modelled next to the     *)
(* rating system's calculate_ninja_score.                                  *)
(*                                                                         *)
(* Numbers.  Python computes with floats; the model computes with exact    *)
(* fixed point integers.  A percentage or ratio of a run is held in units  *)
(* of 1/Unit (3.0 % is 3 * Unit), a count in units of 1.  A median is held *)
(* doubled (a median of an even number of values is the mean of the two    *)
(* middle ones), so median_x = 2 * statistics.median(x).  A score is held  *)
(* multiplied by S.  Timestamps (updated_at of the writers) are left out   *)
(* of the written rows, so the "latest" tab keeps the order of the index,  *)
(* except in SpecLatest, whose ratings carry the time of their write.      *)
(***************************************************************************)
EXTENDS Integers, Sequences, FiniteSets, TLC

VARIABLES
    archives,    \* RESULTS_DIR: the metrics of the readable archives, in glob order
                 \* (in SpecExtract: the archives themselves, before they are read)
    strategies,  \* STRATEGIES_DIR: file stem -> source text (abstracted)
    db,          \* table strategy_ratings: strategy_name -> row (exchange, stake fixed)
    ratings,     \* RATINGS_DIR/<key>_rating.json: strategy_key -> rating
    rankings,    \* RATINGS_DIR/rankings.json: the combined index
    pg_up,       \* whether PostgreSQL accepts connections
    task,        \* the last background task / handler and what reached its caller
    resp,        \* the last response of a ranking read
    procs,       \* batch processes of the file backend (interleaved specification)
    scored,      \* the last call of calculate_ninja_score
    now,         \* the wall clock, in ticks
    extracted    \* the last result of reading archives

vars ==
    <<archives, strategies, db, ratings, rankings, pg_up, task, resp, procs, scored, now,
      extracted>>

-----------------------------------------------------------------------------
(* Bounds of the model *)

MaxNew == 2       \* archives that arrive on top of the initial directory
BulkRuns == 11    \* size of an initial directory that already holds many runs

(* fixed point *)
Unit == 3 * 100
S == 126 * 1000

NONE == "None"               \* None where the other values are strings
NoDays == 0 - 1              \* None where the other values are day counts
NoHash == [none |-> TRUE]    \* None where the other values are source digests

-----------------------------------------------------------------------------
(* Generic helpers *)

Max(a, b) == IF a >= b THEN a ELSE b
Min(a, b) == IF a <= b THEN a ELSE b
Abs(a) == IF a < 0 THEN 0 - a ELSE a

RECURSIVE SumSeq(_)
SumSeq(s) == IF s = <<>> THEN 0 ELSE Head(s) + SumSeq(Tail(s))

RECURSIVE Rep(_, _)
Rep(x, n) == IF n = 0 THEN <<>> ELSE <<x>> \o Rep(x, n - 1)

RECURSIVE Insert(_, _)
Insert(x, s) ==
    IF s = <<>> THEN <<x>>
    ELSE IF x <= Head(s) THEN <<x>> \o s
    ELSE <<Head(s)>> \o Insert(x, Tail(s))

RECURSIVE SortAsc(_)
SortAsc(s) == IF s = <<>> THEN <<>> ELSE Insert(Head(s), SortAsc(Tail(s)))

\* sum(1 for m in metrics_list if m.get("total_profit_pct", 0) < 0), and for > 0
negative_count(metrics_list) ==
    Cardinality({i \in DOMAIN metrics_list : metrics_list[i].total_profit_pct < 0})
profitable_backtests(metrics_list) ==
    Cardinality({i \in DOMAIN metrics_list : metrics_list[i].total_profit_pct > 0})

-----------------------------------------------------------------------------
(* Data: strategy names, runs *)

\* A name is the sequence of its "_"-separated parts: "EMA_Pullback" is <<"EMA","Pullback">>.
EWO == <<"EWO">>
EMA_Pullback == <<"EMA", "Pullback">>
Names == {EWO, EMA_Pullback}

P1 == "20240101-20240201"
P2 == "20240201-20240301"

NumericFields ==
    {"total_trades", "winning_trades", "losing_trades", "win_rate",
     "total_profit_pct", "roi", "max_drawdown", "profit_factor",
     "sharpe_ratio", "sortino_ratio", "calmar_ratio", "expectancy",
     "cagr", "avg_profit", "buys", "rejected_signals"}

\* The metrics dict that extract_backtest_metrics returns for one archive.
MkRun(name, tf, tr, trades, wins, profit, dd) ==
    [strategy_name |-> name, timeframe |-> tf, timerange |-> tr,
     total_trades |-> trades, winning_trades |-> wins, losing_trades |-> trades - wins,
     win_rate |-> IF trades > 0 THEN (wins * 100 * Unit) \div trades ELSE 0,
     total_profit_pct |-> profit, roi |-> profit,
     max_drawdown |-> Abs(dd), profit_factor |-> 0, sharpe_ratio |-> 0,
     sortino_ratio |-> 0, calmar_ratio |-> 0, expectancy |-> 0, cagr |-> 0,
     avg_profit |-> profit \div Max(trades, 1), buys |-> trades,
     rejected_signals |-> 0, leverage |-> 1,
     days_tested |-> IF tr = P1 THEN 31 ELSE IF tr = P2 THEN 29 ELSE NoDays]

-----------------------------------------------------------------------------
(* Classifier: the lookahead scan of a strategy's source text *)

\* A source text, abstracted to which of the scan's regular expressions match it.
\* stoploss: the number after "stoploss =" in hundredths
Src(iat, shift, reduce, rolling, period1, shift_assign, iloc) ==
    [iat |-> iat, shift |-> shift, reduce |-> reduce, rolling |-> rolling,
     period1 |-> period1, shift_assign |-> shift_assign, iloc |-> iloc,
     stoploss |-> 0 - 10]

CleanSrc == Src(FALSE, FALSE, FALSE, FALSE, FALSE, FALSE, FALSE)
IatSrc == Src(TRUE, FALSE, FALSE, FALSE, FALSE, FALSE, FALSE)

IssuesOf(content) ==
    (IF content.iat THEN <<"IAT">> ELSE <<>>)
    \o (IF content.shift THEN <<"FUTURE_SHIFT">> ELSE <<>>)
    \o (IF content.reduce /\ ~content.rolling THEN <<"WHOLE_DATAFRAME">> ELSE <<>>)
    \o (IF content.period1 THEN <<"TA_PERIOD_1">> ELSE <<>>)

\* StrategyRatingSystemStandalone.check_lookahead_bias: <<has_lookahead, issues>>
check_lookahead_bias(files, strategy_name) ==
    IF strategy_name \notin DOMAIN files THEN <<FALSE, <<>>>>
    ELSE LET issues == IssuesOf(files[strategy_name])
         IN <<Len(issues) > 0, issues>>

\* StrategyRatingSystem.check_lookahead_bias: the same scan plus the blacklist patterns
check_lookahead_bias_db(files, strategy_name) ==
    IF strategy_name \notin DOMAIN files THEN <<FALSE, <<>>>>
    ELSE LET content == files[strategy_name]
             issues == IssuesOf(content)
                       \o (IF content.shift_assign THEN <<"BLACKLIST_PATTERN">> ELSE <<>>)
                       \o (IF content.iloc THEN <<"BLACKLIST_PATTERN">> ELSE <<>>)
         IN <<Len(issues) > 0, issues>>

\* calculate_strategy_hash: the digest stands for the text it is taken of
calculate_strategy_hash(files, strategy_name) ==
    IF strategy_name \notin DOMAIN files THEN NoHash ELSE files[strategy_name]

-----------------------------------------------------------------------------
(* Run aggregator *)

RECURSIVE FieldValues(_, _)
\* [m.get(field, 0) for m in metrics_list if field in m]: every run carries every field
FieldValues(metrics_list, field) ==
    IF metrics_list = <<>> THEN <<>>
    ELSE <<Head(metrics_list)[field]>> \o FieldValues(Tail(metrics_list), field)

\* Python's None, as a value of a metrics dict (a JSON null of the archive)
PyNone == 0 - 1000000

\* a median that takes the middle positions of the list as it stands, unsorted
Median2Unsorted(values) ==
    LET n == Len(values)
    IN IF n = 1 /\ values[1] = PyNone THEN PyNone
       ELSE IF n % 2 = 1 THEN 2 * values[(n + 1) \div 2]
       ELSE values[n \div 2] + values[n \div 2 + 1]

\* 2 * statistics.median(values), values non-empty.  A single value is returned
\* as it is, None included; sorting two or more values with a None among them
\* raises TypeError, which the callers model (SortRaises)
Median2(values) ==
    LET sorted == SortAsc(values)
        n == Len(sorted)
    IN IF n = 1 /\ values[1] = PyNone THEN PyNone
       ELSE IF n % 2 = 1 THEN 2 * sorted[(n + 1) \div 2]
       ELSE sorted[n \div 2] + sorted[n \div 2 + 1]

MedianKeys ==
    {"median_total_trades", "median_winning_trades", "median_losing_trades",
     "median_win_rate", "median_total_profit_pct", "median_roi",
     "median_max_drawdown", "median_profit_factor", "median_sharpe_ratio",
     "median_sortino_ratio", "median_calmar_ratio", "median_expectancy",
     "median_cagr", "median_avg_profit", "median_buys",
     "median_rejected_signals"}

\* calculate_median_metrics: "median_<field>" -> median of the runs' values
calculate_median_metrics(metrics_list) ==
    IF metrics_list = <<>> THEN <<>>
    ELSE [median_total_trades |-> Median2(FieldValues(metrics_list, "total_trades")),
          median_winning_trades |-> Median2(FieldValues(metrics_list, "winning_trades")),
          median_losing_trades |-> Median2(FieldValues(metrics_list, "losing_trades")),
          median_win_rate |-> Median2(FieldValues(metrics_list, "win_rate")),
          median_total_profit_pct |-> Median2(FieldValues(metrics_list, "total_profit_pct")),
          median_roi |-> Median2(FieldValues(metrics_list, "roi")),
          median_max_drawdown |-> Median2(FieldValues(metrics_list, "max_drawdown")),
          median_profit_factor |-> Median2(FieldValues(metrics_list, "profit_factor")),
          median_sharpe_ratio |-> Median2(FieldValues(metrics_list, "sharpe_ratio")),
          median_sortino_ratio |-> Median2(FieldValues(metrics_list, "sortino_ratio")),
          median_calmar_ratio |-> Median2(FieldValues(metrics_list, "calmar_ratio")),
          median_expectancy |-> Median2(FieldValues(metrics_list, "expectancy")),
          median_cagr |-> Median2(FieldValues(metrics_list, "cagr")),
          median_avg_profit |-> Median2(FieldValues(metrics_list, "avg_profit")),
          median_buys |-> Median2(FieldValues(metrics_list, "buys")),
          median_rejected_signals |-> Median2(FieldValues(metrics_list, "rejected_signals"))]

\* {k.replace("median_", ""): v for k, v in median_metrics.items()}
StripMedian(median_metrics) ==
    [total_trades |-> median_metrics.median_total_trades,
     winning_trades |-> median_metrics.median_winning_trades,
     losing_trades |-> median_metrics.median_losing_trades,
     win_rate |-> median_metrics.median_win_rate,
     total_profit_pct |-> median_metrics.median_total_profit_pct,
     roi |-> median_metrics.median_roi,
     max_drawdown |-> median_metrics.median_max_drawdown,
     profit_factor |-> median_metrics.median_profit_factor,
     sharpe_ratio |-> median_metrics.median_sharpe_ratio,
     sortino_ratio |-> median_metrics.median_sortino_ratio,
     calmar_ratio |-> median_metrics.median_calmar_ratio,
     expectancy |-> median_metrics.median_expectancy,
     cagr |-> median_metrics.median_cagr,
     avg_profit |-> median_metrics.median_avg_profit,
     buys |-> median_metrics.median_buys,
     rejected_signals |-> median_metrics.median_rejected_signals]

RECURSIVE Gcd(_, _)
Gcd(a, b) == IF b = 0 THEN a ELSE Gcd(b, a % b)

\* (profitable_backtests / len(metrics_list)) * 100 as a reduced fraction <<num, den>>
backtest_win_pct(metrics_list) ==
    LET profitable == profitable_backtests(metrics_list)
        num == 100 * profitable
        den == Len(metrics_list)
        g == Gcd(num, den)
    IN <<num \div g, den \div g>>

-----------------------------------------------------------------------------
(* Classifier: stall classification.  Each check overwrites the result of  *)
(* the checks before it, so the last check that fires gives the reason.    *)

NotStalled == [is_stalled |-> FALSE, stall_reason |-> NONE]
Stalled(reason) == [is_stalled |-> TRUE, stall_reason |-> reason]

Profits(metrics_list) == FieldValues(metrics_list, "total_profit_pct")

\* statistics.mean(profits) < -0.30 and all(profit < 0)
IsNegative(metrics_list) ==
    /\ 10 * SumSeq(Profits(metrics_list)) < (0 - 3) * Unit * Len(metrics_list)
    /\ \A i \in DOMAIN metrics_list : metrics_list[i].total_profit_pct < 0

\* the same check without the minimum of 12 runs
Is90PercentNegativeNoMinimum(metrics_list) ==
    100 * negative_count(metrics_list) >= 90 * Len(metrics_list)

\* len(metrics_list) >= 12 and negative_count / len(metrics_list) >= 0.90
Is90PercentNegative(metrics_list) ==
    /\ Len(metrics_list) >= 12
    /\ 100 * negative_count(metrics_list) >= 90 * Len(metrics_list)

AllNoTrades(metrics_list) == \A i \in DOMAIN metrics_list : metrics_list[i].total_trades = 0

\* StrategyRatingSystem.save_to_database, lines 355-379
StallCheck_db(metrics_list, has_lookahead) ==
    LET s1 == IF IsNegative(metrics_list) THEN Stalled("negative") ELSE NotStalled
        s2 == IF Is90PercentNegative(metrics_list) THEN Stalled("90_percent_negative") ELSE s1
        s3 == IF has_lookahead THEN Stalled("biased") ELSE s2
        s4 == IF AllNoTrades(metrics_list) THEN Stalled("no_trades") ELSE s3
    IN s4

\* StrategyRatingSystemPostgreSQL._save_strategy_rating_to_db, lines 223-239: no scan
StallCheck_pg(metrics_list) ==
    LET s1 == IF IsNegative(metrics_list) THEN Stalled("negative") ELSE NotStalled
        s2 == IF Is90PercentNegative(metrics_list) THEN Stalled("90_percent_negative") ELSE s1
        s3 == IF AllNoTrades(metrics_list) THEN Stalled("no_trades") ELSE s2
    IN s3

\* any(m.get("strategy_name") and m.get("timeframe") and m.get("timerange") ...)
HasValidBacktest(metrics_list) ==
    \E i \in DOMAIN metrics_list :
        /\ metrics_list[i].strategy_name # <<>>
        /\ metrics_list[i].timeframe # ""
        /\ metrics_list[i].timerange # ""

\* StrategyRatingSystemStandalone.save_to_json, lines 562-592
StallCheck_json(metrics_list, has_lookahead) ==
    LET s1 == IF IsNegative(metrics_list) THEN Stalled("negative") ELSE NotStalled
        s2 == IF Is90PercentNegative(metrics_list) THEN Stalled("90_percent_negative") ELSE s1
        s3 == IF has_lookahead THEN Stalled("biased") ELSE s2
        s4 == IF AllNoTrades(metrics_list) /\ ~HasValidBacktest(metrics_list)
              THEN Stalled("no_trades") ELSE s3
    IN s4

-----------------------------------------------------------------------------
(* Score calculator.  normalize returns S * 100 * clamp01((v - min)/(max - min)). *)

NINJA_WEIGHTS ==
    [buys |-> 9, avgprof |-> 26, totprofp |-> 26, winp |-> 24, ddp |-> 0 - 25,
     stoploss |-> 7, sharpe |-> 7, sortino |-> 7, calmar |-> 7, expectancy |-> 8,
     profit_factor |-> 9, cagr |-> 10, rejected_signals |-> 0 - 25,
     backtest_win_percentage |-> 10]

\* value2 is the doubled value in units of 1/unit
normalize(value2, unit, min_val, max_val) ==
    IF max_val = min_val THEN 0
    ELSE Min(100 * S,
             Max(0, (value2 - 2 * unit * min_val)
                    * ((100 * S) \div (2 * unit * (max_val - min_val)))))

Get(metrics, key) == IF key \in DOMAIN metrics THEN metrics[key] ELSE 0

\* The addend of each weighted metric, in the order the code adds them
ddp_term(metrics) ==
    (100 * S - normalize(Get(metrics, "max_drawdown"), Unit, 0, 50)) * NINJA_WEIGHTS.ddp

rejected_term(metrics) ==
    (100 * S - normalize(Get(metrics, "rejected_signals"), 1, 0, 100))
        * NINJA_WEIGHTS.rejected_signals

backtest_win_term(backtest_count) ==
    (IF backtest_count > 0 THEN (backtest_count \div Max(backtest_count, 1)) * 100 * S ELSE 0)
        * NINJA_WEIGHTS.backtest_win_percentage

ScoreTerms(metrics, backtest_count) ==
    [buys |-> normalize(Get(metrics, "buys"), 1, 0, 1000) * NINJA_WEIGHTS.buys,
     avgprof |-> normalize(Get(metrics, "avg_profit"), Unit, 0 - 5, 5) * NINJA_WEIGHTS.avgprof,
     totprofp |-> normalize(Get(metrics, "total_profit_pct"), Unit, 0 - 50, 50)
                    * NINJA_WEIGHTS.totprofp,
     winp |-> normalize(Get(metrics, "win_rate"), Unit, 0, 100) * NINJA_WEIGHTS.winp,
     ddp |-> ddp_term(metrics),
     sharpe |-> normalize(Get(metrics, "sharpe_ratio"), Unit, 0 - 2, 5) * NINJA_WEIGHTS.sharpe,
     sortino |-> normalize(Get(metrics, "sortino_ratio"), Unit, 0 - 2, 5) * NINJA_WEIGHTS.sortino,
     calmar |-> normalize(Get(metrics, "calmar_ratio"), Unit, 0 - 2, 5) * NINJA_WEIGHTS.calmar,
     expectancy |-> normalize(Get(metrics, "expectancy"), Unit, 0 - 1, 1)
                      * NINJA_WEIGHTS.expectancy,
     profit_factor |-> normalize(Get(metrics, "profit_factor"), Unit, 0, 5)
                         * NINJA_WEIGHTS.profit_factor,
     cagr |-> normalize(Get(metrics, "cagr"), Unit, 0 - 50, 100) * NINJA_WEIGHTS.cagr,
     rejected_signals |-> rejected_term(metrics),
     backtest_win_percentage |-> backtest_win_term(backtest_count)]

TermOrder ==
    <<"buys", "avgprof", "totprofp", "winp", "ddp", "sharpe", "sortino", "calmar",
      "expectancy", "profit_factor", "cagr", "rejected_signals", "backtest_win_percentage">>

\* calculate_ninja_score(metrics, backtest_count), the same in the three writers
calculate_ninja_score(metrics, backtest_count) ==
    LET terms == ScoreTerms(metrics, backtest_count)
    IN SumSeq([i \in DOMAIN TermOrder |-> terms[TermOrder[i]]])

-----------------------------------------------------------------------------
(* Grouping of the archives' metrics *)

RECURSIVE Dedup(_)
\* the distinct elements of a sequence in the order of their first occurrence
Dedup(s) ==
    IF s = <<>> THEN <<>>
    ELSE LET rest == Dedup(SubSeq(s, 1, Len(s) - 1))
             x == s[Len(s)]
         IN IF \E i \in DOMAIN rest : rest[i] = x THEN rest ELSE Append(rest, x)

NameOrder(metrics) == Dedup([i \in DOMAIN metrics |-> metrics[i].strategy_name])

\* strategies_metrics[strategy_name] of the relational writers (grouped by name alone)
RunsOfName(metrics, name) == SelectSeq(metrics, LAMBDA m : m.strategy_name = name)

\* strategy_key = f"{strategy_name}_{timeframe}_{timerange}", or without the timerange
StrategyKey(m) ==
    IF m.timerange # "" THEN m.strategy_name \o <<m.timeframe, m.timerange>>
    ELSE m.strategy_name \o <<m.timeframe>>

KeyOrder(metrics) == Dedup([i \in DOMAIN metrics |-> StrategyKey(metrics[i])])

RunsOfKey(metrics, key) == SelectSeq(metrics, LAMBDA m : StrategyKey(m) = key)

-----------------------------------------------------------------------------
(* Relational backend: the rows the two writers send, and the upsert *)

\* StrategyRatingSystem.save_to_database: the VALUES of the INSERT.  The score
\* is computed from combined_metrics, whose keys keep the "median_" prefix.
Row_db(files, strategy_name, metrics_list) ==
    LET median_metrics == calculate_median_metrics(metrics_list)
        scan == check_lookahead_bias_db(files, strategy_name)
        stall == StallCheck_db(metrics_list, scan[1])
    IN median_metrics @@
       [strategy_name |-> strategy_name, exchange |-> "gateio", stake_currency |-> "USDT",
        total_backtests |-> Len(metrics_list),
        backtest_win_percentage |-> backtest_win_pct(metrics_list),
        ninja_score |-> calculate_ninja_score(median_metrics, Len(metrics_list)),
        has_lookahead_bias |-> scan[1], has_tight_trailing_stop |-> FALSE,
        leverage |-> metrics_list[1].leverage,
        strategy_hash |-> calculate_strategy_hash(files, strategy_name),
        is_stalled |-> stall.is_stalled, stall_reason |-> stall.stall_reason,
        is_active |-> ~stall.is_stalled]

\* StrategyRatingSystemPostgreSQL._save_strategy_rating_to_db: the VALUES of the INSERT
Row_pg(strategy_name, metrics_list) ==
    LET median_metrics == calculate_median_metrics(metrics_list)
        stall == StallCheck_pg(metrics_list)
    IN median_metrics @@
       [strategy_name |-> strategy_name, exchange |-> "gateio", stake_currency |-> "USDT",
        total_backtests |-> Len(metrics_list),
        backtest_win_percentage |-> backtest_win_pct(metrics_list),
        ninja_score |-> calculate_ninja_score(StripMedian(median_metrics), Len(metrics_list)),
        has_lookahead_bias |-> FALSE, has_tight_trailing_stop |-> FALSE,
        leverage |-> metrics_list[1].leverage,
        strategy_hash |-> NoHash,
        is_stalled |-> stall.is_stalled, stall_reason |-> stall.stall_reason,
        is_active |-> ~stall.is_stalled]

\* Columns of DO UPDATE SET (updated_at and last_backtest_date are timestamps)
SetColumns_pg ==
    MedianKeys \cup {"total_backtests", "backtest_win_percentage", "ninja_score",
                     "leverage", "is_stalled", "stall_reason"}

SetColumns_db ==
    SetColumns_pg \cup {"has_lookahead_bias", "has_tight_trailing_stop", "strategy_hash"}

\* INSERT ... ON CONFLICT (strategy_name, exchange, stake_currency) DO UPDATE SET ...
Upsert(table, row, set_columns) ==
    LET key == row.strategy_name
    IN IF key \in DOMAIN table
       THEN [table EXCEPT ![key] =
                [c \in DOMAIN row |-> IF c \in set_columns THEN row[c] ELSE table[key][c]]]
       ELSE table @@ (key :> row)

RECURSIVE SaveAll_db(_, _, _, _)
\* StrategyRatingSystem.run: save_to_database for every strategy of the batch
SaveAll_db(table, files, metrics, names) ==
    IF names = <<>> THEN table
    ELSE SaveAll_db(Upsert(table, Row_db(files, Head(names), RunsOfName(metrics, Head(names))),
                           SetColumns_db),
                    files, metrics, Tail(names))

RECURSIVE SaveAll_pg(_, _, _)
\* StrategyRatingSystemPostgreSQL.process_and_save_to_db: one transaction
SaveAll_pg(table, metrics, names) ==
    IF names = <<>> THEN table
    ELSE SaveAll_pg(Upsert(table, Row_pg(Head(names), RunsOfName(metrics, Head(names))),
                           SetColumns_pg),
                    metrics, Tail(names))

process_and_save_to_db(table, metrics) == SaveAll_pg(table, metrics, NameOrder(metrics))

-----------------------------------------------------------------------------
(* File backend: StrategyRatingSystemStandalone *)

\* get_all_strategies(): the stems of the strategy files
get_all_strategies(files) == DOMAIN files

\* s.startswith(base + "_") or s == base
StartsWithBase(s, base) == s # <<>> /\ Head(s) = base

\* process_all_backtests, lines 442-461: whether the group's strategy is in the catalog
strategy_exists(files, strategy, metrics_list) ==
    LET all_strategies == get_all_strategies(files)
        strategy_name_from_metrics == metrics_list[1].strategy_name
        base_strategy == Head(strategy)
    IN \/ strategy_name_from_metrics \in all_strategies
       \/ <<base_strategy>> \in all_strategies
       \/ (Len(strategy_name_from_metrics) > 1
           /\ <<Head(strategy_name_from_metrics)>> \in all_strategies)
       \/ \E s \in all_strategies : StartsWithBase(s, base_strategy)

\* process_all_backtests: the keys of filtered_metrics, in insertion order
FilteredKeys(files, metrics) ==
    SelectSeq(KeyOrder(metrics),
              LAMBDA k : strategy_exists(files, k, RunsOfKey(metrics, k)))

\* len(last_part) == 17 and "-" in last_part
LooksLikeTimerange(part) == part \in {P1, P2}

\* save_to_json: the rating object written to <strategy_name>_rating.json
save_to_json(files, strategy_name, metrics_list) ==
    LET base_strategy_name == <<Head(strategy_name)>>
        median_metrics == calculate_median_metrics(metrics_list)
        scan == check_lookahead_bias(files, base_strategy_name)
        first_timerange == metrics_list[1].timerange
        last_part == strategy_name[Len(strategy_name)]
        timerange == IF first_timerange = "" /\ Len(strategy_name) >= 3
                        /\ LooksLikeTimerange(last_part)
                     THEN last_part ELSE first_timerange
        stall == StallCheck_json(metrics_list, scan[1])
    IN median_metrics @@
       [strategy_name |-> base_strategy_name, strategy_key |-> strategy_name,
        exchange |-> "gateio", stake_currency |-> "USDT",
        timeframe |-> metrics_list[1].timeframe, timerange |-> timerange,
        days_tested |-> metrics_list[1].days_tested,
        total_backtests |-> Len(metrics_list),
        backtest_win_percentage |-> backtest_win_pct(metrics_list),
        ninja_score |-> calculate_ninja_score(StripMedian(median_metrics), Len(metrics_list)),
        has_lookahead_bias |-> scan[1], lookahead_issues |-> scan[2],
        has_tight_trailing_stop |-> FALSE,
        leverage |-> metrics_list[1].leverage,
        strategy_hash |-> calculate_strategy_hash(files, base_strategy_name),
        is_stalled |-> stall.is_stalled, stall_reason |-> stall.stall_reason,
        is_active |-> ~stall.is_stalled,
        all_backtests |-> metrics_list]

RECURSIVE InsertByScoreDesc(_, _)
InsertByScoreDesc(x, s) ==
    IF s = <<>> THEN <<x>>
    ELSE IF Head(s).ninja_score >= x.ninja_score
         THEN <<Head(s)>> \o InsertByScoreDesc(x, Tail(s))
         ELSE <<x>> \o s

RECURSIVE SortByScoreDesc(_)
\* sorted(..., key=ninja_score, reverse=True): stable
SortByScoreDesc(s) ==
    IF s = <<>> THEN <<>>
    ELSE InsertByScoreDesc(s[Len(s)], SortByScoreDesc(SubSeq(s, 1, Len(s) - 1)))

RECURSIVE RatingsOfKeys(_, _, _)
RatingsOfKeys(files, metrics, keys) ==
    IF keys = <<>> THEN <<>>
    ELSE <<save_to_json(files, Head(keys), RunsOfKey(metrics, Head(keys)))>>
         \o RatingsOfKeys(files, metrics, Tail(keys))

\* all_ratings of run(): one rating per key of the batch, in insertion order
AllRatings(files, metrics) == RatingsOfKeys(files, metrics, FilteredKeys(files, metrics))

\* the "rankings" list of rankings.json that run() writes for a batch
BatchRankings(files, metrics) == SortByScoreDesc(AllRatings(files, metrics))

\* the rating files after run(): every rating of the batch replaces its file
RatingFilesAfter(rating_files, all_ratings) ==
    [k \in DOMAIN rating_files \cup {all_ratings[i].strategy_key : i \in DOMAIN all_ratings} |->
        IF \E i \in DOMAIN all_ratings : all_ratings[i].strategy_key = k
        THEN all_ratings[CHOOSE i \in DOMAIN all_ratings : all_ratings[i].strategy_key = k]
        ELSE rating_files[k]]

\* rankings.json: missing, or a text; a text that was not written to its end
\* (complete = FALSE) does not parse
NoFile == [exists |-> FALSE, complete |-> FALSE, rankings |-> <<>>]
FullFile(list) == [exists |-> TRUE, complete |-> TRUE, rankings |-> list]

-----------------------------------------------------------------------------
(* Ranking readers *)

DefaultLimit == 100
FetchLimit == 1000

Take(s, n) == SubSeq(s, 1, Min(Len(s), n))

\* rating_web_interface_standalone.get_rankings_from_json: the catalog test of a rating
strategy_exists_reader(files, r) ==
    LET all_strategies == get_all_strategies(files)
        strategy_name == r.strategy_name
        strategy_key == r.strategy_key
        base_strategy == Head(strategy_name)
    IN \/ strategy_name \in all_strategies
       \/ <<base_strategy>> \in all_strategies
       \/ \E st \in all_strategies : StartsWithBase(st, base_strategy)
       \/ (Len(strategy_key) > 1 /\ <<Head(strategy_key)>> \in all_strategies)

\* get_rankings_from_json(limit): [] when the file is missing or does not parse
get_rankings_from_json(files, file, limit) ==
    IF ~file.exists THEN <<>>
    ELSE IF ~file.complete THEN <<>>
    ELSE Take(SelectSeq(file.rankings,
                        LAMBDA r : strategy_exists_reader(files, r) /\ ~r.has_lookahead_bias),
              limit)

\* rating_web_interface.get_rankings: the SELECT list (updated_at is a timestamp)
SelectColumns ==
    {"strategy_name", "exchange", "stake_currency", "total_backtests", "median_buys",
     "median_total_trades", "median_win_rate", "median_total_profit_pct",
     "median_profit_factor", "median_max_drawdown", "median_sharpe_ratio",
     "median_sortino_ratio", "median_calmar_ratio", "median_expectancy", "median_cagr",
     "median_rejected_signals", "backtest_win_percentage", "ninja_score",
     "has_lookahead_bias", "has_tight_trailing_stop", "leverage", "is_stalled",
     "stall_reason", "is_active"}

\* the WHERE clause of get_rankings; median_total_trades is stored doubled
Where(row, exchange, stake_currency) ==
    /\ row.exchange = exchange
    /\ row.stake_currency = stake_currency
    /\ row.is_active = TRUE
    /\ row.leverage = 1
    /\ row.has_lookahead_bias = FALSE
    /\ row.has_tight_trailing_stop = FALSE
    /\ row.total_backtests >= 3
    /\ row.median_total_trades >= 2 * 10

\* ORDER BY ninja_score DESC: every order of the selected rows that descends by
\* score; rows of equal score come in an order the database chooses
OrderByScoreDesc(rows) ==
    {s \in [1..Cardinality(rows) -> rows] :
        /\ \A i, j \in DOMAIN s : i # j => s[i] # s[j]
        /\ \A i, j \in DOMAIN s : i < j => s[i].ninja_score >= s[j].ninja_score}

\* get_rankings(exchange, stake_currency, limit): the lists fetchall() may return;
\* table is a function from the unique key to the row
get_rankings(table, exchange, stake_currency, limit) ==
    LET selected == {[c \in SelectColumns |-> table[n][c]] :
                        n \in {k \in DOMAIN table : Where(table[k], exchange, stake_currency)}}
    IN {Take(s, limit) : s \in OrderByScoreDesc(selected)}

\* str.lower() / str.upper() on the vocabulary of the query parameters
Lower(str) == CASE str = "GATEIO" -> "gateio" [] str = "5M" -> "5m" [] str = "1H" -> "1h"
                [] OTHER -> str
Upper(str) == CASE str = "usdt" -> "USDT" [] OTHER -> str

DefaultQuery ==
    [tab |-> NONE, min_trades |-> 0, min_profit |-> 0 - 100, max_leverage |-> <<>>,
     exclude_stalled |-> TRUE, exclude_bias |-> TRUE, sort_by |-> "ninja_score",
     order |-> "desc", limit |-> DefaultLimit, exchange |-> NONE, stake |-> NONE,
     hide_negative |-> FALSE, timeframe |-> NONE]

\* get_rankings_with_tab, lines 347-362: the tab's base list
TabBase(rankings_list, tab) ==
    IF tab = "latest" THEN rankings_list  \* sorted by updated_at in get_rankings_with_tab
    ELSE IF tab = "failed"
         THEN SelectSeq(rankings_list, LAMBDA r : r.is_stalled \/ r.total_backtests = 0)
    ELSE rankings_list

\* get_rankings_with_tab, lines 365-411: whether the rating passes every filter.
\* max_leverage is <<>> for an absent or blank parameter and <<n>> for the text of n.
PassesFilters(r, q) ==
    /\ ~(q.exchange # NONE /\ Lower(r.exchange) # Lower(q.exchange))
    /\ ~(q.stake # NONE /\ Upper(r.stake_currency) # Upper(q.stake))
    /\ ~(q.timeframe # NONE /\ Lower(r.timeframe) # Lower(q.timeframe))
    /\ ~(q.hide_negative /\ r.median_total_profit_pct < 0)
    /\ ~(r.median_total_trades < 2 * q.min_trades)
    /\ ~(r.median_total_profit_pct < 2 * Unit * q.min_profit)
    /\ ~(q.max_leverage # <<>> /\ r.leverage > q.max_leverage[1])
    /\ ~(q.tab # "failed" /\ q.exclude_stalled /\ r.is_stalled)
    /\ ~(q.exclude_bias /\ r.has_lookahead_bias)

\* get_rankings_with_tab, lines 414-455: the fields added for the front end
Transform(files, r) ==
    LET avg_prof == IF r.median_avg_profit = 0 /\ r.median_total_trades > 0
                    THEN (2 * r.median_total_profit_pct) \div r.median_total_trades
                    ELSE r.median_avg_profit
        stoploss == IF r.strategy_name \in DOMAIN files
                    THEN files[r.strategy_name].stoploss ELSE 0 - 99
    IN [avg_buys |-> IF r.median_buys # 0 THEN r.median_buys ELSE r.median_total_trades,
        avg_prof |-> avg_prof,
        avg_tot_profit_pct |-> r.median_total_profit_pct,
        avg_win_pct |-> r.median_win_rate,
        avg_dd_pct |-> Abs(r.median_max_drawdown),
        avg_sharpe |-> r.median_sharpe_ratio,
        stoploss |-> stoploss,
        median_avg_profit_pct |-> avg_prof] @@ r

\* key.replace("median_", "avg_") for the sort keys of the model
AvgAlias(key) ==
    CASE key = "median_total_profit_pct" -> "avg_total_profit_pct"
      [] key = "median_avg_profit_pct" -> "avg_avg_profit_pct"
      [] OTHER -> "avg_"

MedianSortKeys == MedianKeys \cup {"median_avg_profit_pct"}

\* sort_key(x) of get_rankings_with_tab
sort_key(x, sort_by) ==
    IF sort_by \in MedianSortKeys
    THEN IF sort_by \in DOMAIN x THEN x[sort_by] ELSE Get(x, AvgAlias(sort_by))
    ELSE Get(x, sort_by)

\* an insertion that puts x before the elements of equal key: a sort that is
\* not stable
RECURSIVE InsertBeforeEqual(_, _, _, _)
InsertBeforeEqual(x, s, sort_by, reverse) ==
    IF s = <<>> THEN <<x>>
    ELSE IF (reverse /\ sort_key(Head(s), sort_by) > sort_key(x, sort_by))
            \/ (~reverse /\ sort_key(Head(s), sort_by) < sort_key(x, sort_by))
         THEN <<Head(s)>> \o InsertBeforeEqual(x, Tail(s), sort_by, reverse)
         ELSE <<x>> \o s

RECURSIVE InsertByKey(_, _, _, _)
InsertByKey(x, s, sort_by, reverse) ==
    IF s = <<>> THEN <<x>>
    ELSE IF (reverse /\ sort_key(Head(s), sort_by) >= sort_key(x, sort_by))
            \/ (~reverse /\ sort_key(Head(s), sort_by) <= sort_key(x, sort_by))
         THEN <<Head(s)>> \o InsertByKey(x, Tail(s), sort_by, reverse)
         ELSE <<x>> \o s

RECURSIVE SortByKey(_, _, _)
\* list.sort(key=sort_key, reverse=reverse): stable
SortByKey(s, sort_by, reverse) ==
    IF s = <<>> THEN <<>>
    ELSE InsertByKey(s[Len(s)], SortByKey(SubSeq(s, 1, Len(s) - 1), sort_by, reverse),
                     sort_by, reverse)

RECURSIVE MapTransform(_, _)
MapTransform(files, s) ==
    IF s = <<>> THEN <<>> ELSE <<Transform(files, Head(s))>> \o MapTransform(files, Tail(s))

\* get_rankings_with_tab when the read of rankings.json raises into the handler:
\* the answer of its except branch
get_rankings_with_tab_raising(files, file, q) ==
    IF file.exists /\ ~file.complete
    THEN [status_code |-> 200, rankings |-> <<>>, total |-> 0, filtered |-> 0,
          source |-> "json", tab |-> "main", error |-> TRUE]
    ELSE LET fetched == get_rankings_from_json(files, file, FetchLimit)
             base == IF q.tab = "latest" THEN SortByKey(fetched, "updated_at", TRUE)
                     ELSE TabBase(fetched, q.tab)
             filtered == SelectSeq(base, LAMBDA r : PassesFilters(r, q))
             transformed_rankings == SortByKey(MapTransform(files, filtered), q.sort_by,
                                               Lower(q.order) = "desc")
         IN [status_code |-> 200,
             rankings |-> Take(transformed_rankings, q.limit),
             total |-> Len(transformed_rankings),
             filtered |-> Len(transformed_rankings),
             source |-> "json",
             tab |-> IF q.tab # NONE THEN q.tab ELSE "main",
             error |-> FALSE]

\* get_rankings_with_tab: always the JSON branch; the response content
get_rankings_with_tab(files, file, q) ==
    LET fetched == get_rankings_from_json(files, file, FetchLimit)
        base == IF q.tab = "latest" THEN SortByKey(fetched, "updated_at", TRUE)
                ELSE TabBase(fetched, q.tab)
        filtered == SelectSeq(base, LAMBDA r : PassesFilters(r, q))
        transformed_rankings == SortByKey(MapTransform(files, filtered), q.sort_by,
                                          Lower(q.order) = "desc")
    IN [status_code |-> 200,
        rankings |-> Take(transformed_rankings, q.limit),
        total |-> Len(transformed_rankings),
        filtered |-> Len(transformed_rankings),
        source |-> "json",
        tab |-> IF q.tab # NONE THEN q.tab ELSE "main",
        error |-> FALSE]

-----------------------------------------------------------------------------
(* Specification Spec: the archive directory grows, the three writers run *)

R_win == MkRun(EWO, "5m", P1, 20, 12, 3 * Unit, 5 * Unit)
R_loss == MkRun(EWO, "5m", P1, 15, 6, (0 - 1) * Unit, 10 * Unit)
R_loss1h == MkRun(EWO, "1h", P2, 10, 2, (0 - 10) * Unit, 20 * Unit)
R_idle == MkRun(EWO, "5m", P1, 0, 0, 0, 0)
R_idle_loss == MkRun(EMA_Pullback, "5m", "", 0, 0, (0 - 1) * Unit, 0)

RunKinds == {R_win, R_loss, R_loss1h, R_idle, R_idle_loss}

InitDirs == {<<>>, Rep(R_loss, BulkRuns), Rep(R_idle_loss, BulkRuns)}

Catalogs ==
    {(EWO :> CleanSrc) @@ (EMA_Pullback :> CleanSrc),
     (EWO :> IatSrc) @@ (EMA_Pullback :> CleanSrc)}

NoResp == [status_code |-> 0]
NoScore == [backtest_count |-> 0 - 1]
NoExtract == [reader |-> NONE]

Idle == [kind |-> "idle", error |-> FALSE, pg |-> FALSE]

Init ==
    /\ archives \in InitDirs
    /\ strategies \in Catalogs
    /\ db = <<>>
    /\ ratings = <<>>
    /\ rankings = NoFile
    /\ pg_up \in BOOLEAN
    /\ task = Idle
    /\ resp = NoResp
    /\ procs = <<>>
    /\ scored = NoScore
    /\ now = 0
    /\ extracted = NoExtract

CanGrow == Len(archives) < MaxNew \/ (Len(archives) >= BulkRuns /\ Len(archives) < BulkRuns + MaxNew)

\* StrategyRatingSystem main(): the constructor raises when PostgreSQL is down
Main_db ==
    /\ pg_up
    /\ archives # <<>>
    /\ db' = SaveAll_db(db, strategies, archives, NameOrder(archives))
    /\ task' = [kind |-> "main_db", error |-> FALSE, pg |-> TRUE]
    /\ resp' = NoResp
    /\ UNCHANGED <<archives, strategies, ratings, rankings, pg_up, procs, scored, now, extracted>>

\* StrategyRatingSystemPostgreSQL main()
Main_pg ==
    /\ pg_up
    /\ db' = process_and_save_to_db(db, archives)
    /\ task' = [kind |-> "main_pg", error |-> FALSE, pg |-> TRUE]
    /\ resp' = NoResp
    /\ UNCHANGED <<archives, strategies, ratings, rankings, pg_up, procs, scored, now, extracted>>

\* StrategyRatingSystemStandalone.run(): returns early, writing nothing, on an empty batch
StandaloneRun(files, metrics) ==
    LET all_ratings == AllRatings(files, metrics)
    IN IF FilteredKeys(files, metrics) = <<>>
       THEN UNCHANGED <<ratings, rankings>>
       ELSE /\ ratings' = RatingFilesAfter(ratings, all_ratings)
            /\ rankings' = FullFile(SortByScoreDesc(all_ratings))

\* StrategyRatingSystemStandalone main()
Main_json ==
    /\ StandaloneRun(strategies, archives)
    /\ task' = [kind |-> "main_json", error |-> FALSE, pg |-> pg_up]
    /\ resp' = NoResp
    /\ UNCHANGED <<archives, strategies, db, pg_up, procs, scored, now, extracted>>

\* StrategyRatingSystemPostgreSQL().process_and_save_to_db() as execute_backtest calls
\* it: _connect raises when PostgreSQL cannot be reached, and nothing is written
PgUpdate(table, metrics, up) ==
    IF up THEN [raised |-> FALSE, table |-> process_and_save_to_db(table, metrics)]
    ELSE [raised |-> TRUE, table |-> table]

\* execute_backtest where the PostgreSQL exception is left to the outer handler
ExecuteBacktestUncaught(run) ==
    LET pg == PgUpdate(db, Append(archives, run), pg_up)
    IN /\ CanGrow
       /\ archives' = Append(archives, run)
       /\ db' = pg.table
       /\ IF pg.raised THEN UNCHANGED <<ratings, rankings>>
          ELSE StandaloneRun(strategies, archives')
       /\ task' = [kind |-> "execute_backtest", error |-> FALSE, pg |-> ~pg.raised]
       /\ resp' = NoResp
       /\ UNCHANGED <<strategies, pg_up, procs, scored, now, extracted>>

\* execute_backtest with returncode 0: the backtest leaves a new archive, then the
\* rating is updated in PostgreSQL inside its own try/except, and always in JSON.
\* Every exception is caught inside the task.
ExecuteBacktest(run) ==
    LET pg == PgUpdate(db, Append(archives, run), pg_up)
    IN /\ CanGrow
       /\ archives' = Append(archives, run)
       /\ db' = pg.table
       /\ StandaloneRun(strategies, archives')
       /\ task' = [kind |-> "execute_backtest", error |-> FALSE, pg |-> ~pg.raised]
       /\ resp' = NoResp
       /\ UNCHANGED <<strategies, pg_up, procs, scored, now, extracted>>

OpenQuery == [DefaultQuery EXCEPT !.exclude_stalled = FALSE, !.exclude_bias = FALSE]
FailedQuery ==
    [DefaultQuery EXCEPT !.tab = "failed", !.sort_by = "total_backtests", !.order = "asc",
                         !.limit = 1]
Queries == {DefaultQuery, OpenQuery, FailedQuery}

\* GET /api/rankings and /api/rankings/{tab}
Query(q) ==
    /\ resp' = [q |-> q] @@ get_rankings_with_tab(strategies, rankings, q)
    /\ UNCHANGED <<archives, strategies, db, ratings, rankings, pg_up, task, procs, scored, now, extracted>>

\* PostgreSQL goes down or comes back
TogglePg ==
    /\ pg_up' = ~pg_up
    /\ UNCHANGED <<archives, strategies, db, ratings, rankings, task, resp, procs, scored, now, extracted>>

Next ==
    \/ Main_db
    \/ Main_pg
    \/ Main_json
    \/ \E run \in RunKinds : ExecuteBacktest(run)
    \/ \E q \in Queries : Query(q)
    \/ TogglePg

Spec == Init /\ [][Next]_vars

-----------------------------------------------------------------------------
(* Properties under Spec *)

\* the relational rows were written from the current archives by the last writer
DbFresh ==
    \/ task.kind \in {"main_db", "main_pg"}
    \/ (task.kind = "execute_backtest" /\ task.pg)

\* the rating files were written from the current archives by the last writer
JsonFresh == task.kind \in {"main_json", "execute_backtest"}

\* C1: after any sequence of rating writes, every stored rating, in the relational
\* table and in the rating files, has is_active equal to the negation of is_stalled.
C1_ActiveIsNotStalled ==
    /\ \A n \in DOMAIN db : db[n].is_active = ~db[n].is_stalled
    /\ \A k \in DOMAIN ratings : ratings[k].is_active = ~ratings[k].is_stalled

\* C2: a rating whose runs all have total_trades = 0 is stalled with reason
\* "no_trades", whatever the runs' name, timeframe and timerange fields hold and
\* whatever other stall condition holds, in the rating files and in the table.
C2_NoTradesStalls ==
    /\ \A k \in DOMAIN ratings :
          AllNoTrades(ratings[k].all_backtests)
              => ratings[k].is_stalled /\ ratings[k].stall_reason = "no_trades"
    /\ DbFresh =>
          \A n \in DOMAIN db :
              AllNoTrades(RunsOfName(archives, n))
                  => db[n].is_stalled /\ db[n].stall_reason = "no_trades"

\* The stall verdict the priority order gives to a group with at least one trade:
\* biased, then 90_percent_negative, then negative, else not stalled.
PriorityVerdict(metrics_list, biased) ==
    IF biased THEN Stalled("biased")
    ELSE IF Len(metrics_list) >= 12
            /\ 10 * negative_count(metrics_list)
                   >= 9 * Len(metrics_list)
         THEN Stalled("90_percent_negative")
    ELSE IF /\ 100 * SumSeq(Profits(metrics_list)) < (0 - 30) * Unit * Len(metrics_list)
            /\ \A i \in DOMAIN metrics_list : metrics_list[i].total_profit_pct < 0
         THEN Stalled("negative")
    ELSE NotStalled

SourceIsBiased(strategy_name) ==
    strategy_name \in DOMAIN strategies /\ IssuesOf(strategies[strategy_name]) # <<>>

\* C3: for a rating with at least one run that has trades, the stall verdict is the
\* first that applies of biased, 90_percent_negative, negative, and the rating is
\* not stalled exactly when none applies, in the rating files and in the table.
C3_StallPriority ==
    /\ \A k \in DOMAIN ratings :
          LET runs == ratings[k].all_backtests
              verdict == PriorityVerdict(runs, SourceIsBiased(runs[1].strategy_name))
          IN ~AllNoTrades(runs)
                => /\ ratings[k].is_stalled = verdict.is_stalled
                   /\ ratings[k].stall_reason = verdict.stall_reason
    /\ DbFresh =>
          \A n \in DOMAIN db :
              LET runs == RunsOfName(archives, n)
                  verdict == PriorityVerdict(runs, SourceIsBiased(n))
              IN ~AllNoTrades(runs)
                    => /\ db[n].is_stalled = verdict.is_stalled
                       /\ db[n].stall_reason = verdict.stall_reason

\* the row the last relational writer computes from a run list alone
FreshRow(strategy_name) ==
    IF task.kind = "main_db"
    THEN Row_db(strategies, strategy_name, RunsOfName(archives, strategy_name))
    ELSE Row_pg(strategy_name, RunsOfName(archives, strategy_name))

\* C8: a stored rating is a function of the current run list only: after a write,
\* every row of the table and every rating file of the batch equals the rating that
\* the same writer puts into an empty store for the same runs.
C8_WriteIsFunctionOfRuns ==
    /\ DbFresh => \A n \in DOMAIN db : db[n] = FreshRow(n)
    /\ JsonFresh =>
          \A k \in DOMAIN ratings :
              ratings[k] = save_to_json(strategies, k, RunsOfKey(archives, k))

\* the runs of the archives that have the strategy, timeframe and period of run m
SameIdentity(m) ==
    SelectSeq(archives, LAMBDA x : /\ x.strategy_name = m.strategy_name
                                   /\ x.timeframe = m.timeframe
                                   /\ x.timerange = m.timerange)

\* C9: runs that differ in timeframe or period are aggregated into separate
\* ratings: every rating file holds runs of one timeframe and period, and every
\* row of the table is the aggregate of the runs of one strategy, timeframe and period.
C9_SeparateIdentities ==
    /\ \A k \in DOMAIN ratings :
          \A i, j \in DOMAIN ratings[k].all_backtests :
              /\ ratings[k].all_backtests[i].timeframe = ratings[k].all_backtests[j].timeframe
              /\ ratings[k].all_backtests[i].timerange = ratings[k].all_backtests[j].timerange
    /\ DbFresh =>
          \A n \in DOMAIN db :
              \E i \in DOMAIN archives :
                  /\ archives[i].strategy_name = n
                  /\ db[n].total_backtests = Len(SameIdentity(archives[i]))
                  /\ db[n].median_total_trades
                        = Median2(FieldValues(SameIdentity(archives[i]), "total_trades"))

\* the ratings of the update's batch that a reader may return: the classifier's
\* flagged ratings are never returned by the file reader
Returnable(batch) == SelectSeq(batch, LAMBDA r : ~r.has_lookahead_bias)

\* C5: when PostgreSQL cannot be reached during the rating update that follows a
\* backtest, the update is still written to the file backend (the index is the
\* batch of the current archives), no error leaves the task, and a later query
\* answers 200 without error with ratings of that batch only; the open query
\* returns every rating of the batch that the reader does not hold back.
C5_FallbackServesUpdate ==
    (task.kind = "execute_backtest" /\ ~task.pg) =>
        LET batch == BatchRankings(strategies, archives)
        IN /\ task.error = FALSE
           /\ rankings = FullFile(batch)
           /\ \A k \in {batch[i].strategy_key : i \in DOMAIN batch} :
                 ratings[k] \in {batch[i] : i \in DOMAIN batch}
           /\ resp # NoResp =>
                 /\ resp.status_code = 200
                 /\ resp.error = FALSE
                 /\ \A i \in DOMAIN resp.rankings :
                       \E j \in DOMAIN batch :
                           /\ batch[j].strategy_key = resp.rankings[i].strategy_key
                           /\ batch[j].ninja_score = resp.rankings[i].ninja_score
                           /\ batch[j].total_backtests = resp.rankings[i].total_backtests
                 /\ resp.q = OpenQuery =>
                       {resp.rankings[i].strategy_key : i \in DOMAIN resp.rankings}
                           = {Returnable(batch)[j].strategy_key : j \in DOMAIN Returnable(batch)}

\* a query answered from the update written while PostgreSQL was down
C5_Witness ==
    /\ task.kind = "execute_backtest"
    /\ ~task.pg
    /\ resp # NoResp
    /\ resp.q = DefaultQuery
    /\ resp.rankings # <<>>
    /\ Len(archives) > 1

-----------------------------------------------------------------------------
(* Specification SpecScore: calculate_ninja_score on metrics drawn from bounded sets *)

\* values in percent (or counts); the model doubles them and scales by Unit
DrawdownLevels == {0, 10, 25, 50, 60}
RejectedLevels == {0, 40, 120}
ProfitLevels == {0 - 60, 20}
WinRateLevels == {0, 55}
SharpeLevels == {0 - 3, 2}
BacktestCounts == {0, 4}

ZeroMetrics == [f \in NumericFields |-> 0]

ScoreMetrics(dd, rejected, profit, win_rate, sharpe) ==
    [ZeroMetrics EXCEPT !.max_drawdown = 2 * Unit * dd,
                        !.rejected_signals = 2 * rejected,
                        !.total_profit_pct = 2 * Unit * profit,
                        !.win_rate = 2 * Unit * win_rate,
                        !.sharpe_ratio = 2 * Unit * sharpe]

InitScore ==
    /\ archives = <<>>
    /\ strategies = (EWO :> CleanSrc)
    /\ db = <<>>
    /\ ratings = <<>>
    /\ rankings = NoFile
    /\ pg_up = FALSE
    /\ task = Idle
    /\ resp = NoResp
    /\ procs = <<>>
    /\ scored = NoScore
    /\ now = 0
    /\ extracted = NoExtract

\* a scoring call that reads the wall clock and the rating store: the behaviour
\* the determinism of the score rules out
CalculateNinjaScoreStateful(metrics, backtest_count) ==
    /\ scored' = [metrics |-> metrics, backtest_count |-> backtest_count,
                  terms |-> ScoreTerms(metrics, backtest_count),
                  score |-> calculate_ninja_score(metrics, backtest_count)
                               + S * (now + Cardinality(DOMAIN ratings))]
    /\ UNCHANGED <<archives, strategies, db, ratings, rankings, pg_up, task, resp, procs, now, extracted>>

\* one call of calculate_ninja_score(metrics, backtest_count)
CalculateNinjaScore(metrics, backtest_count) ==
    /\ scored' = [metrics |-> metrics, backtest_count |-> backtest_count,
                  terms |-> ScoreTerms(metrics, backtest_count),
                  score |-> calculate_ninja_score(metrics, backtest_count)]
    /\ UNCHANGED <<archives, strategies, db, ratings, rankings, pg_up, task, resp, procs, now, extracted>>

NextScore ==
    \E dd \in DrawdownLevels, rejected \in RejectedLevels, profit \in ProfitLevels,
       win_rate \in WinRateLevels, sharpe \in SharpeLevels, n \in BacktestCounts :
        CalculateNinjaScore(ScoreMetrics(dd, rejected, profit, win_rate, sharpe), n)

SpecScore == InitScore /\ [][NextScore]_vars

\* C10: max_drawdown and rejected_signals each contribute (100 - normalized) x |weight|,
\* a non-negative amount, so that a lower drawdown never gives a lower score; every
\* other weighted metric contributes normalized x weight.
C10_InvertedTerms ==
    scored # NoScore =>
        LET m == scored.metrics
        IN /\ scored.terms.ddp
                = (100 * S - normalize(m.max_drawdown, Unit, 0, 50)) * Abs(NINJA_WEIGHTS.ddp)
           /\ scored.terms.rejected_signals
                = (100 * S - normalize(m.rejected_signals, 1, 0, 100))
                      * Abs(NINJA_WEIGHTS.rejected_signals)
           /\ scored.terms.ddp >= 0
           /\ scored.terms.rejected_signals >= 0
           /\ \A dd \in DrawdownLevels :
                 2 * Unit * dd < m.max_drawdown
                    => calculate_ninja_score([m EXCEPT !.max_drawdown = 2 * Unit * dd],
                                             scored.backtest_count) >= scored.score
           /\ scored.terms.totprofp
                = normalize(m.total_profit_pct, Unit, 0 - 50, 50) * NINJA_WEIGHTS.totprofp
           /\ scored.terms.winp = normalize(m.win_rate, Unit, 0, 100) * NINJA_WEIGHTS.winp
           /\ scored.terms.sharpe
                = normalize(m.sharpe_ratio, Unit, 0 - 2, 5) * NINJA_WEIGHTS.sharpe

-----------------------------------------------------------------------------
(* Specification SpecQuery: the same rating records loaded into both backends, *)
(* then read through each backend's ranking read                               *)

Momentum == <<"Momentum">>

\* a rating record as the file writer produces it from a run list
Rated(name, count, trades, profit) ==
    LET run == MkRun(name, "5m", P1, trades, trades \div 2, profit * Unit, 5 * Unit)
    IN save_to_json((name :> CleanSrc), StrategyKey(run), Rep(run, count))

\* the records that may be loaded for each strategy; <<>> loads none
RecordPool ==
    (EWO :> {<<>>, <<Rated(EWO, 3, 20, 3)>>, <<Rated(EWO, 1, 20, 3)>>})
    @@ (EMA_Pullback :> {<<>>, <<Rated(EMA_Pullback, 3, 30, 0 - 2)>>,
                         <<Rated(EMA_Pullback, 3, 4, 5)>>})
    @@ (Momentum :> {<<>>, <<Rated(Momentum, 4, 40, 8)>>})

QueryCatalogs ==
    {(EWO :> CleanSrc) @@ (EMA_Pullback :> CleanSrc) @@ (Momentum :> CleanSrc),
     (EWO :> CleanSrc) @@ (EMA_Pullback :> CleanSrc)}

\* the table with the records loaded under their unique key
LoadTable(records) ==
    [n \in {records[i].strategy_name : i \in DOMAIN records} |->
        records[CHOOSE i \in DOMAIN records : records[i].strategy_name = n]]

InitQuery ==
    /\ archives = <<>>
    /\ strategies \in QueryCatalogs
    /\ \E a \in RecordPool[EWO], b \in RecordPool[EMA_Pullback], c \in RecordPool[Momentum] :
          /\ db = LoadTable(a \o b \o c)
          /\ rankings = FullFile(SortByScoreDesc(a \o b \o c))
    /\ ratings = <<>>
    /\ pg_up = TRUE
    /\ task = Idle
    /\ resp = NoResp
    /\ procs = <<>>
    /\ scored = NoScore
    /\ now = 0
    /\ extracted = NoExtract

QueryExchanges == {"gateio", "GATEIO", "binance"}
QueryLimits == {1, DefaultLimit}

\* the ranking read through each backend for the same exchange, stake and limit:
\* get_rankings on the table, get_rankings_with_tab (main tab, score descending,
\* default filters) on the index file
ReadBoth(exchange, limit) ==
    /\ \E rows \in get_rankings(db, Lower(exchange), "USDT", limit) :
          resp' = [exchange |-> exchange, limit |-> limit, relational |-> rows,
                   file |-> get_rankings_with_tab(strategies, rankings,
                               [DefaultQuery EXCEPT !.exchange = exchange,
                                                    !.stake = "USDT", !.limit = limit])]
    /\ UNCHANGED <<archives, strategies, db, ratings, rankings, pg_up, task, procs, scored, now, extracted>>

NextQuery == \E exchange \in QueryExchanges, limit \in QueryLimits : ReadBoth(exchange, limit)

SpecQuery == InitQuery /\ [][NextQuery]_vars

Identities(items) == [i \in DOMAIN items |-> <<items[i].strategy_name, items[i].ninja_score>>]

\* C4: for the same rating records loaded into both backends, the ranking read
\* returns the same ordered item list and the same total count from the relational
\* backend and from the file backend.
C4_BackendsAgree ==
    resp # NoResp =>
        /\ Identities(resp.relational) = Identities(resp.file.rankings)
        /\ (resp.limit = DefaultLimit => Len(resp.relational) = resp.file.total)

-----------------------------------------------------------------------------
(* Specification SpecConc: StrategyRatingSystemStandalone.run() step by step in *)
(* two operating-system processes (the API server's task and the command-line   *)
(* main()), with a reader beside them.  Nothing in the code locks the files.    *)

MaxArchives == 2

Writers == {"server", "cli"}

ConcRuns == {R_win, R_loss, R_loss1h}

IdleProc == [pc |-> "idle", metrics |-> <<>>, keys |-> <<>>, all_ratings |-> <<>>]

InitConc ==
    /\ archives = <<>>
    /\ strategies = (EWO :> CleanSrc) @@ (EMA_Pullback :> CleanSrc)
    /\ db = <<>>
    /\ ratings = <<>>
    /\ rankings = NoFile
    /\ pg_up = FALSE
    /\ task = Idle
    /\ resp = NoResp
    /\ procs = [w \in Writers |-> IdleProc]
    /\ scored = NoScore
    /\ now = 0
    /\ extracted = NoExtract

\* a backtest leaves a new archive in the results directory
AddArchive(run) ==
    /\ Len(archives) < MaxArchives
    /\ archives' = Append(archives, run)
    /\ UNCHANGED <<strategies, db, ratings, rankings, pg_up, task, resp, procs, scored, now, extracted>>

\* run(): process_all_backtests reads the archives; an empty batch returns 0
ProcessAllBacktests(w) ==
    /\ procs[w].pc = "idle"
    /\ procs' = [procs EXCEPT ![w] =
                    IF FilteredKeys(strategies, archives) = <<>> THEN IdleProc
                    ELSE [pc |-> "save", metrics |-> archives,
                          keys |-> FilteredKeys(strategies, archives),
                          all_ratings |-> <<>>]]
    /\ UNCHANGED <<archives, strategies, db, ratings, rankings, pg_up, task, resp, scored, now, extracted>>

\* run(): one turn of the loop, save_to_json writes the rating file of one key
SaveToJson(w) ==
    /\ procs[w].pc = "save"
    /\ LET k == Head(procs[w].keys)
           rating == save_to_json(strategies, k, RunsOfKey(procs[w].metrics, k))
       IN /\ ratings' = RatingFilesAfter(ratings, <<rating>>)
          /\ procs' = [procs EXCEPT ![w].keys = Tail(@),
                                    ![w].all_ratings = Append(@, rating),
                                    ![w].pc = IF Len(procs[w].keys) = 1 THEN "open" ELSE "save"]
    /\ UNCHANGED <<archives, strategies, db, rankings, pg_up, task, resp, scored, now, extracted>>

\* rankings_file.write_text: open(mode="w") truncates rankings.json
OpenIndex(w) ==
    /\ procs[w].pc = "open"
    /\ rankings' = [exists |-> TRUE, complete |-> FALSE, rankings |-> <<>>]
    /\ procs' = [procs EXCEPT ![w].pc = "write"]
    /\ UNCHANGED <<archives, strategies, db, ratings, pg_up, task, resp, scored, now, extracted>>

\* rankings_file.write_text: the text is written and the file closed; run() returns
WriteIndex(w) ==
    /\ procs[w].pc = "write"
    /\ rankings' = FullFile(SortByScoreDesc(procs[w].all_ratings))
    /\ procs' = [procs EXCEPT ![w] = IdleProc]
    /\ UNCHANGED <<archives, strategies, db, ratings, pg_up, task, resp, scored, now, extracted>>

\* get_rankings_from_json in a reader beside the writers
ReadIndex ==
    /\ resp' = [file |-> rankings,
                rankings |-> get_rankings_from_json(strategies, rankings, DefaultLimit)]
    /\ UNCHANGED <<archives, strategies, db, ratings, rankings, pg_up, task, procs, scored, now, extracted>>

NextConc ==
    \/ \E run \in ConcRuns : AddArchive(run)
    \/ \E w \in Writers : ProcessAllBacktests(w)
    \/ \E w \in Writers : SaveToJson(w)
    \/ \E w \in Writers : OpenIndex(w)
    \/ \E w \in Writers : WriteIndex(w)
    \/ ReadIndex

SpecConc == InitConc /\ [][NextConc]_vars

\* the index that a complete batch over the first n archives writes
BatchIndex(n) == FullFile(BatchRankings(strategies, SubSeq(archives, 1, n)))

\* C6: a ranking read beside a full-batch recompute sees the complete index of a
\* completed batch (or no index before the first batch), never an empty,
\* truncated or partially written one.
C6_ReaderSeesCompleteIndex ==
    resp # NoResp =>
        \/ resp.file = NoFile
        \/ \E n \in 1..Len(archives) :
              /\ resp.file = BatchIndex(n)
              /\ resp.rankings = Returnable(BatchIndex(n).rankings)

\* C7: after two batch recomputes that ran side by side have both finished, the
\* rating files and the index equal the output of one complete batch, and every
\* entry of the index equals the rating file of its identity.
C7_NoInterleaving ==
    ((\A w \in Writers : procs[w].pc = "idle") /\ rankings.exists) =>
        /\ \E n \in 1..Len(archives) :
              /\ rankings = BatchIndex(n)
              /\ \A i \in DOMAIN BatchIndex(n).rankings :
                    ratings[BatchIndex(n).rankings[i].strategy_key] = BatchIndex(n).rankings[i]
        /\ \A i \in DOMAIN rankings.rankings :
              ratings[rankings.rankings[i].strategy_key] = rankings.rankings[i]

-----------------------------------------------------------------------------
(* Further properties of the score under Spec *)

\* the sum of the addends of the score before the backtest_win_percentage addend,
\* for the medians of a stored rating
ScoreBeforeWinTerm(r) ==
    calculate_ninja_score(StripMedian(r), r.total_backtests)
        - ScoreTerms(StripMedian(r), r.total_backtests).backtest_win_percentage

\* the rows of the table carry the score of the PostgreSQL writer
DbFreshPg == DbFresh /\ task.kind # "main_db"

\* the last addend of a stored score is backtest_win_percentage x weight
WinTermIsPercentage(r) ==
    (r.ninja_score - ScoreBeforeWinTerm(r)) * r.backtest_win_percentage[2]
        = r.backtest_win_percentage[1] * S * NINJA_WEIGHTS.backtest_win_percentage

\* C11: the last term of the composite score of every stored rating is the rating's
\* backtest_win_percentage (100 x profitable runs / total runs) times its weight 10,
\* in the rating files and in the rows of the PostgreSQL writer.
C11_WinPercentageTerm ==
    /\ \A k \in DOMAIN ratings : WinTermIsPercentage(ratings[k])
    /\ DbFreshPg => \A n \in DOMAIN db : WinTermIsPercentage(db[n])

-----------------------------------------------------------------------------
(* jesse/services/ninja_score.py.  A metric is held in tenths (JUnit), a     *)
(* contribution and the score multiplied by JS; the ranges of the code       *)
(* divide JS * value exactly for the values the model draws.                 *)

JUnit == 2 * 5
JS == 3 * 1000

JESSE_WEIGHTS ==
    [total_trades |-> 9, avg_profit_pct |-> 26, total_profit_pct |-> 26, win_rate |-> 24,
     max_drawdown_pct |-> 0 - 25, sharpe_ratio |-> 7, sortino_ratio |-> 7,
     calmar_ratio |-> 7, expectancy |-> 8, profit_factor |-> 9, cagr |-> 10,
     max_consecutive_losses |-> 0 - 25, backtest_win_percentage |-> 10]

\* min(num / den, 1.0), multiplied by JS: there is no lower clamp
CapAtOne(num, den) == Min((num * JS) \div den, JS)

\* math.log(total_trades) in thousandths, for the trade counts the model draws
LnMilli(total_trades) ==
    CASE total_trades = 5 -> 1609
      [] total_trades = 20 -> 2996
      [] OTHER -> 0

\* int(math.log(total_trades) * (1 - win_rate / 100) * 2), guarded as in the code
max_consecutive_losses(total_trades, win_rate) ==
    IF total_trades > 0 /\ win_rate < 100 * JUnit
    THEN (LnMilli(total_trades) * (100 * JUnit - win_rate) * 2) \div (1000 * 100 * JUnit)
    ELSE 0

\* breakdown of calculate_ninja_score(metrics), in the order the code adds it
jesse_breakdown(metrics) ==
    LET total_trades == Get(metrics, "total_trades")
        total_profit_pct == Get(metrics, "total_net_profit_percentage")
        win_rate == Get(metrics, "win_rate")
        max_drawdown_pct == Abs(Get(metrics, "max_drawdown_percentage"))
        losses == max_consecutive_losses(total_trades, win_rate)
    IN [total_trades |-> CapAtOne(total_trades, 10) * JESSE_WEIGHTS.total_trades,
        avg_profit_pct |-> CapAtOne(total_profit_pct, JUnit * Max(total_trades, 1) * 5)
                              * JESSE_WEIGHTS.avg_profit_pct,
        total_profit_pct |-> CapAtOne(total_profit_pct, JUnit * 50)
                                * JESSE_WEIGHTS.total_profit_pct,
        win_rate |-> ((win_rate * JS) \div (JUnit * 100)) * JESSE_WEIGHTS.win_rate,
        max_drawdown_pct |-> (0 - CapAtOne(max_drawdown_pct, JUnit * 50))
                                * Abs(JESSE_WEIGHTS.max_drawdown_pct),
        sharpe_ratio |-> CapAtOne(Get(metrics, "sharpe_ratio"), JUnit * 3)
                            * JESSE_WEIGHTS.sharpe_ratio,
        sortino_ratio |-> CapAtOne(Get(metrics, "sortino_ratio"), JUnit * 3)
                             * JESSE_WEIGHTS.sortino_ratio,
        calmar_ratio |-> CapAtOne(Get(metrics, "calmar_ratio"), JUnit * 3)
                            * JESSE_WEIGHTS.calmar_ratio,
        expectancy |-> CapAtOne(Get(metrics, "expectancy"), 1) * JESSE_WEIGHTS.expectancy,
        profit_factor |-> CapAtOne(Get(metrics, "profit_factor"), JUnit * 2)
                             * JESSE_WEIGHTS.profit_factor,
        cagr |-> CapAtOne(Get(metrics, "cagr"), JUnit * 100) * JESSE_WEIGHTS.cagr,
        max_consecutive_losses |-> (0 - CapAtOne(losses, 10))
                                      * Abs(JESSE_WEIGHTS.max_consecutive_losses),
        backtest_win_percentage |-> ((win_rate * JS) \div (JUnit * 100))
                                       * JESSE_WEIGHTS.backtest_win_percentage]

JesseOrder ==
    <<"total_trades", "avg_profit_pct", "total_profit_pct", "win_rate", "max_drawdown_pct",
      "sharpe_ratio", "sortino_ratio", "calmar_ratio", "expectancy", "profit_factor",
      "cagr", "max_consecutive_losses", "backtest_win_percentage">>

\* round(score, 2) of a score held multiplied by JS: hundredths, nearest, ties to even
Round2(score) ==
    LET step == JS \div 100
        q == score \div step
        r == score % step
    IN IF 2 * r > step \/ (2 * r = step /\ q % 2 = 1) THEN q + 1 ELSE q

Category(score) ==
    IF score >= 500 * JS THEN "Excellent"
    ELSE IF score >= 200 * JS THEN "Good"
    ELSE IF score >= 0 THEN "Satisfactory"
    ELSE "Poor"

\* jesse.services.ninja_score.calculate_ninja_score(metrics); ninja_score in hundredths
jesse_calculate_ninja_score(metrics) ==
    IF DOMAIN metrics = {}
    THEN [ninja_score |-> 0, category |-> "Poor", breakdown |-> <<>>]
    ELSE LET breakdown == jesse_breakdown(metrics)
             score == SumSeq([i \in DOMAIN JesseOrder |-> breakdown[JesseOrder[i]]])
         IN [ninja_score |-> Round2(score), category |-> Category(score),
             breakdown |-> breakdown]

-----------------------------------------------------------------------------
(* Specification SpecCalls: calls of the two scoring functions over time, while *)
(* the clock advances and the rating store changes                              *)

MaxClock == 1

JesseTrades == {0, 5, 20}
JesseProfits == {0 - 600, 200}
JesseWinRates == {0, 550, 1000}
JesseSharpes == {0 - 30, 20}
JesseExpectancies == {0 - 120, 2}
JesseDrawdowns == {0 - 100, 600}

JesseMetrics(trades, profit, win_rate, sharpe, expectancy, dd) ==
    [total_trades |-> trades, total_net_profit_percentage |-> profit, win_rate |-> win_rate,
     max_drawdown_percentage |-> dd, sharpe_ratio |-> sharpe, expectancy |-> expectancy]

\* one call of jesse.services.ninja_score.calculate_ninja_score(metrics)
JesseCalculateNinjaScore(metrics) ==
    /\ scored' = [jesse_metrics |-> metrics, result |-> jesse_calculate_ninja_score(metrics)]
    /\ UNCHANGED <<archives, strategies, db, ratings, rankings, pg_up, task, resp, procs, now,
                   extracted>>

\* the wall clock advances
Tick ==
    /\ now < MaxClock
    /\ now' = now + 1
    /\ UNCHANGED <<archives, strategies, db, ratings, rankings, pg_up, task, resp, procs,
                   scored, extracted>>

\* a rating file appears in, or disappears from, the store
StoreChanges ==
    /\ ratings' = IF ratings = <<>>
                  THEN (<<"EWO", "5m", P1>> :> Rated(EWO, 1, 20, 3))
                  ELSE <<>>
    /\ UNCHANGED <<archives, strategies, db, rankings, pg_up, task, resp, procs, scored, now,
                   extracted>>

NextCalls ==
    \/ \E dd \in DrawdownLevels, rejected \in RejectedLevels, profit \in ProfitLevels,
          win_rate \in WinRateLevels, sharpe \in SharpeLevels, n \in BacktestCounts :
           CalculateNinjaScore(ScoreMetrics(dd, rejected, profit, win_rate, sharpe), n)
    \/ \E trades \in JesseTrades, profit \in JesseProfits, win_rate \in JesseWinRates,
          sharpe \in JesseSharpes, expectancy \in JesseExpectancies, dd \in JesseDrawdowns :
           JesseCalculateNinjaScore(JesseMetrics(trades, profit, win_rate, sharpe,
                                                 expectancy, dd))
    \/ JesseCalculateNinjaScore(<<>>)
    \/ Tick
    \/ StoreChanges

SpecCalls == InitScore /\ [][NextCalls]_vars

\* a contribution whose normalized value lies in the clamp's range: between 0 and
\* top x weight for a positive weight, between top x weight and 0 for a negative one
InClampRange(contribution, weight, top) ==
    IF weight >= 0 THEN 0 <= contribution /\ contribution <= top * weight
    ELSE top * weight <= contribution /\ contribution <= 0

\* C12: for every weighted metric and every input value, below the range minimum
\* and above the maximum included, the normalized value lies in the clamp's range
\* (0 to 100 percent), so that the contribution is bounded by the full weight, in
\* calculate_ninja_score of the rating system and of jesse/services/ninja_score.py.
C12_NormalizedInRange ==
    /\ "terms" \in DOMAIN scored =>
          /\ \A k \in DOMAIN scored.terms :
                InClampRange(scored.terms[k], NINJA_WEIGHTS[k], 100 * S)
          /\ normalize(scored.metrics.total_profit_pct, Unit, 0 - 50, 50) \in 0..(100 * S)
          /\ normalize(scored.metrics.sharpe_ratio, Unit, 0 - 2, 5) \in 0..(100 * S)
          /\ normalize(scored.metrics.max_drawdown, Unit, 0, 50) \in 0..(100 * S)
          /\ normalize(scored.metrics.rejected_signals, 1, 0, 100) \in 0..(100 * S)
    /\ "result" \in DOMAIN scored =>
          \A k \in DOMAIN scored.result.breakdown :
              InClampRange(scored.result.breakdown[k], JESSE_WEIGHTS[k], JS)

\* two results of the rating system's scoring function for the same metric fields
SameFreqTradeCall(a, b) ==
    /\ "terms" \in DOMAIN a /\ "terms" \in DOMAIN b
    /\ a.metrics = b.metrics
    /\ a.backtest_count = b.backtest_count

\* two results of jesse's scoring function for the same metric fields
SameJesseCall(a, b) ==
    /\ "result" \in DOMAIN a /\ "result" \in DOMAIN b
    /\ a.jesse_metrics = b.jesse_metrics

\* C13: the score is a deterministic function of its input: a call made with the
\* same metric fields as the call before it returns the same score (and, in jesse,
\* the same category and breakdown), whatever the wall clock, the contents of the
\* rating store, and the calls made in between.
C13_ScoreIsDeterministic ==
    [][/\ SameFreqTradeCall(scored, scored') => scored'.score = scored.score
       /\ SameJesseCall(scored, scored') => scored'.result = scored.result
       /\ "terms" \in DOMAIN scored' =>
              scored'.score = calculate_ninja_score(scored'.metrics, scored'.backtest_count)
       /\ "result" \in DOMAIN scored' =>
              scored'.result = jesse_calculate_ninja_score(scored'.jesse_metrics)]_vars

\* the clock has advanced and the store holds a rating, and jesse's function has
\* been called with twenty trades and returned a category
C13_Witness ==
    /\ now = MaxClock
    /\ ratings # <<>>
    /\ "result" \in DOMAIN scored
    /\ scored.result.category = "Satisfactory"
    /\ scored.jesse_metrics.total_trades = 20

-----------------------------------------------------------------------------
(* Specification SpecMedian: the runs of one identity accumulate in any order, *)
(* and the relational and the file writer aggregate them                        *)

MaxRuns == 4

\* a run whose archive carries "sharpe_ratio": null
R_null == [MkRun(EWO, "5m", P1, 20, 12, 5 * Unit, 5 * Unit) EXCEPT !.sharpe_ratio = PyNone]

MedianRuns == {MkRun(EWO, "5m", P1, 20, 12, p * Unit, 5 * Unit) : p \in 1..4} \cup {R_null}

InitMedian ==
    /\ archives = <<>>
    /\ strategies = (EWO :> CleanSrc)
    /\ db = <<>>
    /\ ratings = <<>>
    /\ rankings = NoFile
    /\ pg_up = TRUE
    /\ task = Idle
    /\ resp = NoResp
    /\ procs = <<>>
    /\ scored = NoScore
    /\ now = 0
    /\ extracted = NoExtract

\* some run of the list has None for a numeric field
HasNone(metrics_list) ==
    \E i \in DOMAIN metrics_list : \E f \in NumericFields : metrics_list[i][f] = PyNone

\* statistics.median sorts: a None among two or more values raises TypeError
SortRaises(metrics_list) == Len(metrics_list) >= 2 /\ HasNone(metrics_list)

\* a backtest leaves one more archive of the identity
AppendMetrics(run) ==
    /\ Len(archives) < MaxRuns
    /\ archives' = Append(archives, run)
    /\ UNCHANGED <<strategies, db, ratings, rankings, pg_up, task, resp, procs, scored, now,
                   extracted>>

\* StrategyRatingSystem.run(): save_to_database rolls back and re-raises on an
\* exception, and run() catches it per strategy
RunMedian_db ==
    /\ archives # <<>>
    /\ db' = IF SortRaises(archives) THEN db
             ELSE SaveAll_db(db, strategies, archives, NameOrder(archives))
    /\ task' = [kind |-> "main_db", error |-> FALSE, pg |-> TRUE]
    /\ UNCHANGED <<archives, strategies, ratings, rankings, pg_up, resp, procs, scored, now,
                   extracted>>

\* StrategyRatingSystemStandalone.run(): calculate_ninja_score raises TypeError on
\* a None metric, run() catches it per strategy and writes the index without it
RunMedian_json ==
    /\ archives # <<>>
    /\ IF HasNone(archives)
       THEN /\ rankings' = FullFile(<<>>)
            /\ UNCHANGED ratings
       ELSE StandaloneRun(strategies, archives)
    /\ task' = [kind |-> "main_json", error |-> FALSE, pg |-> pg_up]
    /\ UNCHANGED <<archives, strategies, db, pg_up, resp, procs, scored, now, extracted>>

NextMedian ==
    \/ \E run \in MedianRuns : AppendMetrics(run)
    \/ RunMedian_db
    \/ RunMedian_json

SpecMedian == InitMedian /\ [][NextMedian]_vars

\* the k-th smallest of a list, by counting and without sorting
KthSmallest(values, k) ==
    CHOOSE x \in {values[i] : i \in DOMAIN values} :
        /\ Cardinality({i \in DOMAIN values : values[i] < x}) < k
        /\ k <= Cardinality({i \in DOMAIN values : values[i] <= x})

\* twice the standard median: the middle value, or the sum of the two middle values
StandardMedian2(values) ==
    LET n == Len(values)
    IN IF n % 2 = 1 THEN 2 * KthSmallest(values, (n + 1) \div 2)
       ELSE KthSmallest(values, n \div 2) + KthSmallest(values, n \div 2 + 1)

\* the relational row was written from the run list as it is now
RowIsFresh(n) == db[n].total_backtests = Len(archives)

\* C14: for every non-empty run list and every numeric field, median_<field> is
\* the standard median of the runs' values (the middle value of the ascending
\* sort for an odd number of runs, the mean of the two middle values for an even
\* number), whatever the order of the runs.
C14_StandardMedian ==
    /\ \A k \in DOMAIN ratings : \A f \in NumericFields :
           StripMedian(ratings[k])[f]
               = StandardMedian2(FieldValues(ratings[k].all_backtests, f))
    /\ \A n \in DOMAIN db : RowIsFresh(n) /\ ~HasNone(archives) =>
           \A f \in NumericFields :
               StripMedian(db[n])[f] = StandardMedian2(FieldValues(archives, f))

\* the profits 3, 1, 4, 2 (percent), in that order, were aggregated to the median
\* 2.5 by both writers
C14_Witness ==
    /\ FieldValues(archives, "total_profit_pct") = <<3 * Unit, Unit, 4 * Unit, 2 * Unit>>
    /\ \E k \in DOMAIN ratings :
           /\ ratings[k].all_backtests = archives
           /\ ratings[k].median_total_profit_pct = 5 * Unit
    /\ \E n \in DOMAIN db : RowIsFresh(n) /\ db[n].median_total_profit_pct = 5 * Unit

\* C15: a median field is never null or absent, in the aggregate or in the
\* persisted record; when no run of the identity carries a value for a numeric
\* field, the rating holds that field's median with value 0.
C15_MedianNeverNull ==
    /\ \A n \in DOMAIN db : \A k \in MedianKeys :
           k \in DOMAIN db[n] /\ db[n][k] # PyNone
    /\ \A key \in DOMAIN ratings : \A k \in MedianKeys :
           k \in DOMAIN ratings[key] /\ ratings[key][k] # PyNone
    /\ \A n \in DOMAIN db : \A f \in NumericFields :
           (RowIsFresh(n) /\ \A i \in DOMAIN archives : archives[i][f] = PyNone)
               => StripMedian(db[n])[f] = 0

-----------------------------------------------------------------------------
(* Readers of one archive: extract_backtest_metrics of the three rating systems. *)
(* An archive is modelled by what the readers look at: whether the container and *)
(* its JSON can be read, the nested block data["strategy"][name], the legacy     *)
(* block data[name]["results"], which of the two keys comes first in the JSON,   *)
(* and the results of a .meta.json file next to the archive.                     *)

NoBlock == <<>>

\* data["strategy"][name]: headline counts and the trade list (profit_ratio * 100 per trade)
NestedBlock(name, tf, tr, total_trades, wins, losses, profit_total_pct, trades) ==
    [name |-> name, timeframe |-> tf, timerange |-> tr, total_trades |-> total_trades,
     wins |-> wins, losses |-> losses, profit_total_pct |-> profit_total_pct,
     trades |-> trades]

\* data[name]["results"], or the same layout in <archive>.meta.json
LegacyBlock(name, total_trades, wins, losses, profit_total_pct) ==
    [name |-> name, total_trades |-> total_trades, wins |-> wins, losses |-> losses,
     profit_total_pct |-> profit_total_pct]

RawArchive(corrupt, meta, nested, legacy, first_key) ==
    [corrupt |-> corrupt, meta |-> meta, nested |-> nested, legacy |-> legacy,
     first_key |-> first_key]

\* sum(1 for t in trades_array if t.get("profit_ratio", 0) > 0)
RECURSIVE winning(_)
winning(trades_array) ==
    IF trades_array = <<>> THEN 0
    ELSE (IF Head(trades_array) > 0 THEN 1 ELSE 0) + winning(Tail(trades_array))

\* a metrics dict with the three counts and the profit of a block
BlockMetrics(name, tf, tr, total_trades, wins, losses, profit_total_pct) ==
    [MkRun(name, tf, tr, total_trades, wins, profit_total_pct, 0)
        EXCEPT !.losing_trades = losses]

\* the dicts of the two relational readers carry no timeframe, timerange or days_tested
WithoutPeriod(metrics) ==
    [k \in DOMAIN metrics \ {"timeframe", "timerange", "days_tested"} |-> metrics[k]]

\* the legacy branch (and the .meta.json branch) of the standalone reader
LegacyMetrics(block) ==
    BlockMetrics(block.name, "5m", "", block.total_trades, block.wins, block.losses,
                 block.profit_total_pct)

\* the nested branch of the standalone reader, with its trade-list fallbacks
NestedMetrics(block) ==
    LET total_trades == IF block.total_trades = 0 /\ block.trades # <<>>
                        THEN Len(block.trades) ELSE block.total_trades
        counted == block.wins = 0 /\ block.losses = 0 /\ total_trades > 0
                      /\ block.trades # <<>>
        wins == IF counted THEN winning(block.trades) ELSE block.wins
        losses == IF counted THEN Len(block.trades) - winning(block.trades) ELSE block.losses
        profit_total_pct == IF total_trades > 0 /\ block.trades # <<>>
                            THEN SumSeq(block.trades) ELSE block.profit_total_pct
    IN BlockMetrics(block.name, block.timeframe, block.timerange, total_trades, wins, losses,
                    profit_total_pct)

\* StrategyRatingSystemStandalone.extract_backtest_metrics; <<>> stands for None
extract_standalone(zip_file) ==
    IF zip_file.corrupt THEN <<>>
    ELSE IF zip_file.meta # NoBlock THEN LegacyMetrics(zip_file.meta)
    ELSE IF zip_file.nested # NoBlock THEN NestedMetrics(zip_file.nested)
    ELSE IF zip_file.legacy # NoBlock THEN LegacyMetrics(zip_file.legacy)
    ELSE <<>>

\* StrategyRatingSystemPostgreSQL.extract_backtest_metrics: the nested block only,
\* headline values only
extract_postgresql(zip_file) ==
    IF zip_file.corrupt \/ zip_file.nested = NoBlock THEN <<>>
    ELSE LET block == zip_file.nested
         IN WithoutPeriod(BlockMetrics(block.name, "5m", "", block.total_trades, block.wins,
                                       block.losses, block.profit_total_pct))

\* StrategyRatingSystem.extract_backtest_metrics: data[first key]["results"]; when
\* the first key is "strategy" its value has no "results" and the reader returns None
extract_db(zip_file) ==
    IF zip_file.corrupt \/ zip_file.legacy = NoBlock THEN <<>>
    ELSE IF zip_file.nested # NoBlock /\ zip_file.first_key = "strategy" THEN <<>>
    ELSE WithoutPeriod(LegacyMetrics(zip_file.legacy))

\* the loop of process_all_backtests: "if not metrics: continue"
RECURSIVE Collect(_)
Collect(results) ==
    IF results = <<>> THEN <<>>
    ELSE (IF Head(results) = <<>> THEN <<>> ELSE <<Head(results)>>) \o Collect(Tail(results))

-----------------------------------------------------------------------------
(* Specification SpecExtract: archives of several layouts, some corrupt, are *)
(* left in the directory and the three batches read them                     *)

MaxRaw == 2

HeadlineBlock == NestedBlock(EWO, "5m", P1, 20, 12, 8, 3 * Unit, <<>>)
ZeroHeadlineBlock == NestedBlock(EWO, "5m", P1, 0, 0, 0, 0, <<2 * Unit, 0 - Unit, 2 * Unit>>)
OldBlock == LegacyBlock(EWO, 10, 4, 6, 0 - Unit)

RawKinds ==
    {RawArchive(TRUE, NoBlock, HeadlineBlock, NoBlock, "strategy"),
     RawArchive(FALSE, NoBlock, NoBlock, NoBlock, "strategy"),
     RawArchive(FALSE, NoBlock, HeadlineBlock, NoBlock, "strategy"),
     RawArchive(FALSE, NoBlock, ZeroHeadlineBlock, NoBlock, "strategy"),
     RawArchive(FALSE, NoBlock, NoBlock, OldBlock, "name"),
     RawArchive(FALSE, NoBlock, HeadlineBlock, OldBlock, "strategy"),
     RawArchive(FALSE, NoBlock, HeadlineBlock, OldBlock, "name"),
     RawArchive(FALSE, OldBlock, HeadlineBlock, NoBlock, "strategy")}

\* a backtest, or the user, leaves one more archive in the directory
AddRawArchive(zip_file) ==
    /\ Len(archives) < MaxRaw
    /\ archives' = Append(archives, zip_file)
    /\ UNCHANGED <<strategies, db, ratings, rankings, pg_up, task, resp, procs, scored, now,
                   extracted>>

\* StrategyRatingSystemStandalone.run() over the directory
Batch_json ==
    LET results == [i \in DOMAIN archives |-> extract_standalone(archives[i])]
    IN /\ archives # <<>>
       /\ extracted' = [reader |-> "standalone", zip_files |-> archives, results |-> results]
       /\ StandaloneRun(strategies, Collect(results))
       /\ task' = [kind |-> "main_json", error |-> FALSE, pg |-> pg_up]
       /\ UNCHANGED <<archives, strategies, db, pg_up, resp, procs, scored, now>>

\* StrategyRatingSystemPostgreSQL.process_and_save_to_db() over the directory
Batch_pg ==
    LET results == [i \in DOMAIN archives |-> extract_postgresql(archives[i])]
    IN /\ archives # <<>>
       /\ extracted' = [reader |-> "postgresql", zip_files |-> archives, results |-> results]
       /\ db' = process_and_save_to_db(db, Collect(results))
       /\ task' = [kind |-> "main_pg", error |-> FALSE, pg |-> TRUE]
       /\ UNCHANGED <<archives, strategies, ratings, rankings, pg_up, resp, procs, scored, now>>

\* StrategyRatingSystem.run() over the directory
Batch_db ==
    LET results == [i \in DOMAIN archives |-> extract_db(archives[i])]
        metrics == Collect(results)
    IN /\ archives # <<>>
       /\ extracted' = [reader |-> "db", zip_files |-> archives, results |-> results]
       /\ db' = SaveAll_db(db, strategies, metrics, NameOrder(metrics))
       /\ task' = [kind |-> "main_db", error |-> FALSE, pg |-> TRUE]
       /\ UNCHANGED <<archives, strategies, ratings, rankings, pg_up, resp, procs, scored, now>>

NextExtract ==
    \/ \E zip_file \in RawKinds : AddRawArchive(zip_file)
    \/ Batch_json
    \/ Batch_pg
    \/ Batch_db

SpecExtract == InitMedian /\ [][NextExtract]_vars

\* the archive of position i of the last batch has a nested block with a trade list
HasTradeList(i) ==
    /\ ~extracted.zip_files[i].corrupt
    /\ extracted.zip_files[i].nested # NoBlock
    /\ extracted.zip_files[i].nested.trades # <<>>

\* C16: in every reader that feeds a backend, when the headline trade count of the
\* per-strategy block is 0 or missing and the trade list is non-empty, the produced
\* total_trades is the length of the list; when the headline profit is 0 or missing
\* and the list is non-empty, total_profit_pct is the sum of profit_ratio x 100.
C16_TradeListFallback ==
    extracted.reader # NONE =>
        \A i \in DOMAIN extracted.zip_files :
            LET block == extracted.zip_files[i].nested
                metrics == extracted.results[i]
            IN HasTradeList(i) =>
                  /\ block.total_trades = 0 =>
                        metrics # <<>> /\ metrics.total_trades = Len(block.trades)
                  /\ block.profit_total_pct = 0 =>
                        metrics # <<>> /\ metrics.total_profit_pct = SumSeq(block.trades)

\* C17: when an archive has both a nested per-strategy block and a legacy results
\* block, the produced metrics are those of the nested block; the legacy block is
\* used only when there is no nested block.
C17_NestedTakesPrecedence ==
    extracted.reader # NONE =>
        \A i \in DOMAIN extracted.zip_files :
            LET zip_file == extracted.zip_files[i]
                metrics == extracted.results[i]
            IN (~zip_file.corrupt /\ zip_file.nested # NoBlock
                   /\ (zip_file.legacy # NoBlock \/ zip_file.meta # NoBlock)) =>
                  /\ metrics # <<>>
                  /\ metrics.total_trades = NestedMetrics(zip_file.nested).total_trades
                  /\ metrics.total_profit_pct = NestedMetrics(zip_file.nested).total_profit_pct

\* an archive whose container and JSON can be read and that holds a result block
Readable(zip_file) ==
    ~zip_file.corrupt /\ (zip_file.nested # NoBlock \/ zip_file.legacy # NoBlock)

RECURSIVE SumBacktests(_)
\* the runs counted in the rating files of the given keys
SumBacktests(keys) ==
    IF keys = {} THEN 0
    ELSE LET k == CHOOSE k \in keys : TRUE
         IN ratings[k].total_backtests + SumBacktests(keys \ {k})

\* the runs of EWO counted by the backend that the last batch wrote
CountedRuns ==
    IF extracted.reader = "standalone" THEN SumBacktests(DOMAIN ratings)
    ELSE IF EWO \in DOMAIN db THEN db[EWO].total_backtests ELSE 0

\* C18: a batch over archives some of which are corrupt (unreadable container,
\* invalid JSON, no result block) completes; a corrupt archive contributes nothing,
\* and every readable archive of a catalogued strategy is counted in the rating:
\* the ratings of the strategy count as many runs as it has readable archives.
C18_CorruptArchivesSkipped ==
    (extracted.reader # NONE /\ extracted.zip_files = archives) =>
        /\ ~task.error
        /\ \A i \in DOMAIN archives : ~Readable(archives[i]) => extracted.results[i] = <<>>
        /\ CountedRuns = Cardinality({i \in DOMAIN archives : Readable(archives[i])})

-----------------------------------------------------------------------------
(* Specification SpecFilter: an index file holding active, stalled and flagged *)
(* ratings is queried with every combination of tab and filters               *)

\* the rating the file writer produces for a strategy with the given source text
RatedFrom(src, name, count, trades, profit) ==
    LET run == MkRun(name, "5m", P1, trades, trades \div 2, profit * Unit, 5 * Unit)
    IN save_to_json((name :> src), StrategyKey(run), Rep(run, count))

\* the ratings that may be stored: an active one, one flagged by the lookahead
\* scan (stalled as "biased"), and two stalled as "negative"
FilterPool ==
    (EWO :> {<<>>, <<RatedFrom(CleanSrc, EWO, 3, 20, 3)>>, <<RatedFrom(IatSrc, EWO, 3, 20, 3)>>})
    @@ (EMA_Pullback :> {<<>>, <<RatedFrom(CleanSrc, EMA_Pullback, 3, 30, 0 - 2)>>})
    @@ (Momentum :> {<<>>, <<RatedFrom(CleanSrc, Momentum, 2, 10, 0 - 5)>>})

InitFilter ==
    /\ archives = <<>>
    /\ strategies \in {(EWO :> CleanSrc) @@ (EMA_Pullback :> CleanSrc) @@ (Momentum :> CleanSrc),
                       (EWO :> CleanSrc) @@ (EMA_Pullback :> CleanSrc)}
    /\ \E a \in FilterPool[EWO], b \in FilterPool[EMA_Pullback], c \in FilterPool[Momentum] :
          rankings = FullFile(SortByScoreDesc(a \o b \o c))
    /\ db = <<>>
    /\ ratings = <<>>
    /\ pg_up = FALSE
    /\ task = Idle
    /\ resp = NoResp
    /\ procs = <<>>
    /\ scored = NoScore
    /\ now = 0
    /\ extracted = NoExtract

FilterQueries ==
    {[DefaultQuery EXCEPT !.tab = tab, !.exclude_stalled = exclude_stalled,
                          !.exclude_bias = exclude_bias, !.min_trades = min_trades] :
        tab \in {NONE, "failed"}, exclude_stalled \in BOOLEAN, exclude_bias \in BOOLEAN,
        min_trades \in {0, 15}}

NextFilter == \E q \in FilterQueries : Query(q)

SpecFilter == InitFilter /\ [][NextFilter]_vars

\* the strategy keys of a list of ratings
KeysOf(items) == {items[i].strategy_key : i \in DOMAIN items}

\* C19: on the tab "failed" with exclude_stalled = true the stalled-exclusion is
\* not applied: every stored stalled rating that satisfies the remaining filters
\* is in the result, and every returned item is stalled or has zero backtests.
C19_FailedTabKeepsStalled ==
    (resp # NoResp /\ resp.q.tab = "failed" /\ resp.q.exclude_stalled) =>
        /\ \A i \in DOMAIN rankings.rankings :
              (/\ rankings.rankings[i].is_stalled
               /\ PassesFilters(rankings.rankings[i], [resp.q EXCEPT !.exclude_stalled = FALSE]))
                 => rankings.rankings[i].strategy_key \in KeysOf(resp.rankings)
        /\ \A j \in DOMAIN resp.rankings :
              resp.rankings[j].is_stalled \/ resp.rankings[j].total_backtests = 0

\* C20: the result of a query is exactly the set of stored ratings, after the
\* tab's narrowing, that satisfy every supplied filter; a filter that is switched
\* off excludes nothing (with exclude_bias = false flagged ratings are returned).
C20_ExactlyTheFiltered ==
    resp # NoResp =>
        KeysOf(resp.rankings)
            = KeysOf(SelectSeq(TabBase(rankings.rankings, resp.q.tab),
                               LAMBDA r : PassesFilters(r, resp.q)))

-----------------------------------------------------------------------------
(* The rated sessions of the jesse controller: the table of backtest sessions
   (held in db), read a page at a time by get_rated_sessions. *)

MaxSessions == 3            \* rows a small table of sessions grows to
SessionFetchLimit == 1000   \* limit=1000 of the call of get_backtest_sessions

Session(id, status, metrics_json, ninja_score, total_trades) ==
    [id |-> id, status |-> status, metrics_json |-> metrics_json,
     ninja_score |-> ninja_score, total_trades |-> total_trades]

\* the distinct values of a key of the sessions, best first or worst first
RECURSIVE KeyValues(_, _)
KeyValues(vals, reverse) ==
    IF vals = {} THEN <<>>
    ELSE LET v == CHOOSE x \in vals :
                      \A y \in vals : IF reverse THEN x >= y ELSE x <= y
         IN  <<v>> \o KeyValues(vals \ {v}, reverse)

RECURSIVE ConcatByKey(_, _, _)
ConcatByKey(s, key, order) ==
    IF order = <<>> THEN <<>>
    ELSE SelectSeq(s, LAMBDA x : x[key] = Head(order))
             \o ConcatByKey(s, key, Tail(order))

\* list.sort(key=..., reverse=reverse): stable, equal keys keep their order
SortSessions(s, key, reverse) ==
    ConcatByKey(s, key, KeyValues({s[i][key] : i \in DOMAIN s}, reverse))

\* s[offset:offset + limit]
Slice(s, offset, limit) == SubSeq(s, offset + 1, Min(Len(s), offset + limit))

\* the rows of one status, ordered by ninja_score when asked to, then the
\* window offset/limit of them
get_backtest_sessions(table, limit, offset, status_filter, sort_by, sort_order) ==
    LET rows == SelectSeq(table, LAMBDA x : x.status = status_filter)
        ordered == IF sort_by = "ninja_score"
                   THEN SortSessions(rows, "ninja_score", sort_order = "desc")
                   ELSE rows
    IN  Slice(ordered, offset, limit)

SortField(sort_by) == IF sort_by = "trades" THEN "total_trades" ELSE "ninja_score"

\* the filters of the request; None switches a filter off
SessionPasses(x, q) ==
    /\ ~(q.min_ninja_score # PyNone /\ x.ninja_score < q.min_ninja_score)
    /\ ~(q.min_trades # PyNone /\ x.total_trades < q.min_trades)

get_rated_sessions(table, q) ==
    LET sessions == get_backtest_sessions(table, SessionFetchLimit, 0, q.status_filter,
                        IF q.sort_by = "ninja_score" THEN q.sort_by ELSE NONE,
                        q.sort_order)
        rated_sessions ==
            SelectSeq(sessions, LAMBDA x : x.metrics_json /\ SessionPasses(x, q))
        sorted == SortSessions(rated_sessions, SortField(q.sort_by), q.sort_order = "desc")
    IN  [sessions |-> Slice(sorted, q.offset, q.limit),
         total_count |-> Len(sorted),
         filtered_count |-> Len(sorted)]

SessionKinds ==
    { Session(0, "finished", TRUE, 80, 20),
      Session(0, "finished", TRUE, 40, 5),
      Session(0, "finished", FALSE, 0, 0),
      Session(0, "running", TRUE, 60, 30) }

\* a table with more finished sessions than one fetch returns
FullTable ==
    [i \in 1..(SessionFetchLimit + 1) |-> Session(i, "finished", TRUE, 80, 20)]

InitSessions ==
    /\ archives = <<>>
    /\ strategies = (EWO :> CleanSrc)
    /\ db \in {<<>>, FullTable}
    /\ ratings = <<>>
    /\ rankings = NoFile
    /\ pg_up = TRUE
    /\ task = Idle
    /\ resp = NoResp
    /\ procs = <<>>
    /\ scored = NoScore
    /\ now = 0
    /\ extracted = NoExtract

\* a backtest session is stored
StoreSession ==
    /\ Len(db) < MaxSessions
    /\ \E k \in SessionKinds : db' = Append(db, [k EXCEPT !.id = Len(db) + 1])
    /\ UNCHANGED <<archives, strategies, ratings, rankings, pg_up, task, resp, procs, scored, now, extracted>>

SessionQueries ==
    [limit : {1, 2}, offset : {0, 1}, status_filter : {"finished"},
     min_ninja_score : {PyNone}, min_trades : {PyNone, 10},
     sort_by : {"ninja_score", "trades"}, sort_order : {"desc", "asc"}]

GetRatedSessions ==
    /\ \E q \in SessionQueries : resp' = [q |-> q] @@ get_rated_sessions(db, q)
    /\ UNCHANGED <<archives, strategies, db, ratings, rankings, pg_up, task, procs, scored, now, extracted>>

NextSessions ==
    \/ StoreSession
    \/ GetRatedSessions

SpecSessions == InitSessions /\ [][NextSessions]_vars

\* the stored sessions a request asks for: of its status, rated, passing its filters
PassingSessions(table, q) ==
    SelectSeq(table, LAMBDA x : x.status = q.status_filter /\ x.metrics_json
                                   /\ SessionPasses(x, q))

\* what a page r read from a table of sessions is to be
IsPageOf(table, r) ==
    LET passing == PassingSessions(table, r.q)
        key == SortField(r.q.sort_by)
    IN  /\ r.total_count = Len(passing)
        /\ Len(r.sessions) = Max(0, Min(r.q.limit, Len(passing) - r.q.offset))
        /\ \A i \in DOMAIN r.sessions : r.sessions[i] \in {passing[j] : j \in DOMAIN passing}
        /\ \A i \in DOMAIN r.sessions : \A j \in DOMAIN r.sessions :
               i < j => IF r.q.sort_order = "desc"
                        THEN r.sessions[i][key] >= r.sessions[j][key]
                        ELSE r.sessions[i][key] <= r.sessions[j][key]

\* C21: the returned items are the offset/limit slice of the filtered and
\* sorted list, and the returned total is the number of stored ratings that
\* pass the filters, whatever limit and offset are and however many ratings
\* the store holds.
C21_TotalIsFilteredCount ==
    [][(db' = db /\ resp' # resp) => IsPageOf(db', resp')]_vars

\* the same for the tables one fetch covers
PageIsExactWithinOneFetch ==
    [][(db' = db /\ resp' # resp /\ Len(db) <= SessionFetchLimit)
          => IsPageOf(db', resp')]_vars

-----------------------------------------------------------------------------
(* The catalog shrinks: a strategy file disappears, or the strategy is deleted
   through the API, and the batch of the file backend runs again. *)

MaxCatalogRuns == 3   \* archives of the results directory of this specification

R_momentum == MkRun(Momentum, "5m", P1, 20, 12, 3 * Unit, 5 * Unit)

InitCatalog ==
    /\ archives = <<>>
    /\ strategies = (EWO :> CleanSrc) @@ (Momentum :> CleanSrc)
    /\ db = <<>>
    /\ ratings = <<>>
    /\ rankings = NoFile
    /\ pg_up = FALSE
    /\ task = Idle
    /\ resp = NoResp
    /\ procs = <<>>
    /\ scored = NoScore
    /\ now = 0
    /\ extracted = NoExtract

\* a backtest leaves an archive in the results directory
NewArchive ==
    /\ Len(archives) < MaxCatalogRuns
    /\ \E run \in {R_win, R_loss, R_momentum} : archives' = Append(archives, run)
    /\ UNCHANGED <<strategies, db, ratings, rankings, pg_up, task, resp, procs, scored, now, extracted>>

\* a strategy file disappears from the strategies directory
RemoveStrategyFile ==
    /\ \E name \in DOMAIN strategies :
          strategies' = [n \in DOMAIN strategies \ {name} |-> strategies[n]]
    /\ UNCHANGED <<archives, db, ratings, rankings, pg_up, task, resp, procs, scored, now, extracted>>

\* DELETE /api/strategies/{strategy_name}: runs the batch of the file backend
\* again and answers "deleted"; neither the catalog nor a rating is touched
\* by the handler itself
delete_strategy ==
    /\ StandaloneRun(strategies, archives)
    /\ task' = [kind |-> "delete_strategy", error |-> FALSE, pg |-> FALSE]
    /\ resp' = NoResp
    /\ UNCHANGED <<archives, strategies, db, pg_up, procs, scored, now, extracted>>

NextCatalog ==
    \/ NewArchive
    \/ RemoveStrategyFile
    \/ Main_json
    \/ delete_strategy
    \/ Query(OpenQuery)

SpecCatalog == InitCatalog /\ [][NextCatalog]_vars

\* the strategy of a rating has no file in the catalog
Uncatalogued(files, r) == r.strategy_name \notin DOMAIN files

\* the rating of a key in a list of ratings
RatingOfKey(items, key) ==
    items[CHOOSE i \in DOMAIN items : items[i].strategy_key = key]

\* the index is the one the batch writes for the present catalog and archives
IndexIsCurrent ==
    /\ FilteredKeys(strategies, archives) # <<>>
    /\ rankings = FullFile(BatchRankings(strategies, archives))

\* C22: when a strategy is removed from the catalog and the batch is computed
\* again, its ratings stay in the store and in the index, marked
\* is_active = false; no rating is ever dropped from the store or the index,
\* and an unfiltered query still returns them.
C22_RemovedStrategyKept ==
    [][/\ DOMAIN ratings \subseteq DOMAIN ratings'
       /\ KeysOf(rankings.rankings) \subseteq KeysOf(rankings'.rankings)
       /\ (task'.kind \in {"main_json", "delete_strategy"} /\ task' # task) =>
             \A k \in KeysOf(rankings'.rankings) :
                 Uncatalogued(strategies', RatingOfKey(rankings'.rankings, k))
                    => ~RatingOfKey(rankings'.rankings, k).is_active
       /\ (resp' # NoResp /\ resp' # resp /\ IndexIsCurrent) =>
             DOMAIN ratings \subseteq KeysOf(resp'.rankings)]_vars

-----------------------------------------------------------------------------
(* The lookahead flag of the stored ratings *)

\* the patterns that match the source of a strategy, none when it has no file
MatchedPatterns(strategy_name) ==
    IF strategy_name \in DOMAIN strategies THEN IssuesOf(strategies[strategy_name])
    ELSE <<>>

\* C23: in every stored rating, of either backend, has_lookahead_bias is true
\* exactly when at least one lookahead pattern matches the source of the
\* rating's strategy, and the issues list names exactly the matched patterns
\* (it is empty exactly when the flag is false).
C23_FlagIffPatternMatches ==
    /\ \A n \in DOMAIN db :
          db[n].has_lookahead_bias <=> (MatchedPatterns(n) # <<>>)
    /\ \A k \in DOMAIN ratings :
          LET name == ratings[k].all_backtests[1].strategy_name
          IN  /\ ratings[k].has_lookahead_bias <=> (MatchedPatterns(name) # <<>>)
              /\ ratings[k].lookahead_issues = MatchedPatterns(name)
              /\ (ratings[k].lookahead_issues = <<>>) <=> ~ratings[k].has_lookahead_bias

\* the same for the rows StrategyRatingSystem writes and for the rating files
\* of strategies whose name has no underscore
FlagIffPatternMatches_ScanningWriters ==
    /\ task.kind = "main_db" =>
          \A n \in DOMAIN db : db[n].has_lookahead_bias <=> (MatchedPatterns(n) # <<>>)
    /\ \A k \in DOMAIN ratings :
          LET name == ratings[k].all_backtests[1].strategy_name
          IN  Len(name) = 1 =>
                 /\ ratings[k].has_lookahead_bias <=> (MatchedPatterns(name) # <<>>)
                 /\ ratings[k].lookahead_issues = MatchedPatterns(name)

-----------------------------------------------------------------------------
(* The combined file is lost or damaged between batches, and read meanwhile *)

\* rankings.json exists and does not parse
TornFile == [exists |-> TRUE, complete |-> FALSE, rankings |-> <<>>]

InitIndex ==
    /\ archives = <<>>
    /\ strategies \in {(EWO :> CleanSrc) @@ (Momentum :> CleanSrc),
                       (EWO :> IatSrc) @@ (Momentum :> CleanSrc)}
    /\ db = <<>>
    /\ ratings = <<>>
    /\ rankings = NoFile
    /\ pg_up = FALSE
    /\ task = Idle
    /\ resp = NoResp
    /\ procs = <<>>
    /\ scored = NoScore
    /\ now = 0
    /\ extracted = NoExtract

\* rankings.json is deleted, or is left as a text that json.loads rejects
DamageIndex ==
    /\ \E file \in {NoFile, TornFile} : file # rankings /\ rankings' = file
    /\ UNCHANGED <<archives, strategies, db, ratings, pg_up, task, resp, procs, scored, now, extracted>>

IndexQueries == {DefaultQuery, [DefaultQuery EXCEPT !.exclude_stalled = FALSE]}

NextIndex ==
    \/ NewArchive
    \/ DamageIndex
    \/ Main_json
    \/ \E q \in IndexQueries : Query(q)

SpecIndex == InitIndex /\ [][NextIndex]_vars

\* C24: while the combined file is missing, unreadable or not valid JSON, a
\* ranking query answers with an empty result and no error; the next complete
\* batch leaves a valid file, and the queries after it return the ratings of
\* that batch.
C24_DamagedIndexReadsEmpty ==
    [][/\ (resp' # resp /\ resp' # NoResp /\ ~(rankings.exists /\ rankings.complete)) =>
             /\ resp'.status_code = 200
             /\ resp'.rankings = <<>>
             /\ resp'.total = 0
             /\ ~resp'.error
       /\ (task' # task /\ FilteredKeys(strategies, archives) # <<>>) =>
             /\ rankings'.exists /\ rankings'.complete
             /\ rankings' = FullFile(BatchRankings(strategies, archives))
       /\ (resp' # resp /\ resp' # NoResp /\ IndexIsCurrent) =>
             KeysOf(resp'.rankings)
                = KeysOf(SelectSeq(BatchRankings(strategies, archives),
                                   LAMBDA r : PassesFilters(r, resp'.q)))]_vars

\* a query was answered from a combined file that a batch had written and that
\* was damaged afterwards
C24_Witness ==
    /\ resp # NoResp
    /\ resp.rankings = <<>> /\ resp.total = 0
    /\ rankings = TornFile
    /\ ratings # <<>>
    /\ Len(archives) = MaxCatalogRuns

-----------------------------------------------------------------------------
(* One identity is backtested again and again: a winning run, a losing run,
   then mostly losing runs; every backtest is followed by the batch. *)

MaxScenarioRuns == 13   \* runs of the identity
MaxWins == 2            \* winning runs among them

R_loss10 == MkRun(EWO, "5m", P1, 10, 2, (0 - 10) * Unit, 20 * Unit)

InitScenario ==
    /\ archives = <<>>
    /\ strategies \in {(EWO :> CleanSrc), (EWO :> IatSrc)}
    /\ db = <<>>
    /\ ratings = <<>>
    /\ rankings = NoFile
    /\ pg_up = FALSE
    /\ task = Idle
    /\ resp = NoResp
    /\ procs = <<>>
    /\ scored = NoScore
    /\ now = 0
    /\ extracted = NoExtract

\* execute_backtest while PostgreSQL is down: the new archive, then the batch
\* of the file backend
BacktestAndRate(run) ==
    /\ Len(archives) < MaxScenarioRuns
    /\ run.total_profit_pct > 0 => profitable_backtests(archives) < MaxWins
    /\ run = R_loss => Len(archives) < 2
    /\ archives' = Append(archives, run)
    /\ StandaloneRun(strategies, archives')
    /\ task' = [kind |-> "execute_backtest", error |-> FALSE, pg |-> FALSE]
    /\ resp' = NoResp
    /\ UNCHANGED <<strategies, db, pg_up, procs, scored, now, extracted>>

NextScenario == \E run \in {R_win, R_loss, R_loss10} : BacktestAndRate(run)

SpecScenario == InitScenario /\ [][NextScenario]_vars

\* C25: the runs of profit +3.0 and -1.0 (20 and 15 trades, no lookahead
\* pattern in the source) give median_total_profit_pct 1.0,
\* backtest_win_percentage 50 and is_stalled false; once the identity has at
\* least 12 runs of which at least 90% are negative it is stalled with the
\* reason 90_percent_negative, and with fewer than 12 runs it never has that
\* reason.
C25_ScenarioReclassifies ==
    \A k \in DOMAIN ratings :
        LET r == ratings[k]
            runs == r.all_backtests
        IN  /\ (/\ Profits(runs) = <<3 * Unit, (0 - 1) * Unit>>
                /\ FieldValues(runs, "total_trades") = <<20, 15>>
                /\ ~r.has_lookahead_bias) =>
                   /\ r.median_total_profit_pct = 2 * (1 * Unit)
                   /\ r.backtest_win_percentage = <<50, 1>>
                   /\ ~r.is_stalled
            /\ (/\ Len(runs) >= 12
                /\ 10 * negative_count(runs) >= 9 * Len(runs)
                /\ ~r.has_lookahead_bias) =>
                   /\ r.is_stalled
                   /\ r.stall_reason = "90_percent_negative"
            /\ Len(runs) < 12 => r.stall_reason # "90_percent_negative"

\* the identity was rated with two runs, and later with twelve runs of which
\* one is a winning run
C25_Witness ==
    \E k \in DOMAIN ratings :
        /\ Len(ratings[k].all_backtests) = 12
        /\ profitable_backtests(ratings[k].all_backtests) = 1
        /\ ratings[k].all_backtests[1] = R_win
        /\ ratings[k].all_backtests[2] = R_loss
        /\ ratings[k].stall_reason = "90_percent_negative"

-----------------------------------------------------------------------------
(* The archives of one identity arrive in any order; runs of the legacy layout
   carry the leverage of their own config. *)

R_lev1 == MkRun(EWO, "5m", "", 15, 6, (0 - 1) * Unit, 10 * Unit)
R_lev3 == [MkRun(EWO, "5m", "", 20, 12, 3 * Unit, 5 * Unit) EXCEPT !.leverage = 3]

OrderRuns == {R_win, R_lev1, R_lev3}

NextOrder ==
    \/ \E run \in OrderRuns : AppendMetrics(run)
    \/ Main_json
    \/ Main_db

SpecOrder == InitMedian /\ [][NextOrder]_vars

\* the orders of a list of n runs
Orders(n) == {p \in [1..n -> 1..n] : \A i, j \in 1..n : p[i] = p[j] => i = j}

Reordered(runs, p) == [i \in DOMAIN runs |-> runs[p[i]]]

\* the fields of a rating other than the stored list of its runs
RatingFields(r) == [f \in DOMAIN r \ {"all_backtests"} |-> r[f]]

\* C26: a rating is the same for every order of its run list, in every field:
\* the medians, backtest_win_percentage, the score, the stall flags, and
\* leverage, timeframe, timerange and days_tested.
C26_OrderOfRunsIrrelevant ==
    /\ \A k \in DOMAIN ratings :
          \A p \in Orders(Len(ratings[k].all_backtests)) :
              RatingFields(save_to_json(strategies, k,
                                        Reordered(ratings[k].all_backtests, p)))
                 = RatingFields(ratings[k])
    /\ \A n \in DOMAIN db :
          LET runs == RunsOfName(archives, n)
          IN  db[n] = Row_db(strategies, n, runs) =>
                 \A p \in Orders(Len(runs)) :
                     Row_db(strategies, n, Reordered(runs, p)) = db[n]

\* the same without the leverage
OrderOfRunsIrrelevant_ButLeverage ==
    /\ \A k \in DOMAIN ratings :
          \A p \in Orders(Len(ratings[k].all_backtests)) :
              [RatingFields(save_to_json(strategies, k,
                                Reordered(ratings[k].all_backtests, p)))
                  EXCEPT !.leverage = 0]
                 = [RatingFields(ratings[k]) EXCEPT !.leverage = 0]
    /\ \A n \in DOMAIN db :
          LET runs == RunsOfName(archives, n)
          IN  db[n] = Row_db(strategies, n, runs) =>
                 \A p \in Orders(Len(runs)) :
                     [Row_db(strategies, n, Reordered(runs, p)) EXCEPT !.leverage = 0]
                        = [db[n] EXCEPT !.leverage = 0]

-----------------------------------------------------------------------------
(* The tab "latest": the ratings of the index carry the time of their write *)

MaxStamp == 3   \* the clock readings of the writes

\* a rating as save_to_json writes it at time t
RatedAt(name, count, trades, profit, t) ==
    [updated_at |-> t] @@ RatedFrom(CleanSrc, name, count, trades, profit)

\* per strategy: no rating, or a rating written at one of the times; EWO and
\* Momentum have equal metrics, EMA_Pullback is rated lower
LatestPool ==
    (EWO :> {<<>>} \cup {<<RatedAt(EWO, 3, 20, 3, t)>> : t \in 1..MaxStamp})
    @@ (EMA_Pullback :> {<<>>} \cup {<<RatedAt(EMA_Pullback, 2, 30, 1, t)>> : t \in 1..MaxStamp})
    @@ (Momentum :> {<<>>} \cup {<<RatedAt(Momentum, 3, 20, 3, t)>> : t \in 1..MaxStamp})

InitLatest ==
    /\ archives = <<>>
    /\ strategies = (EWO :> CleanSrc) @@ (EMA_Pullback :> CleanSrc) @@ (Momentum :> CleanSrc)
    /\ \E a \in LatestPool[EWO], b \in LatestPool[EMA_Pullback], c \in LatestPool[Momentum] :
          rankings = FullFile(SortByScoreDesc(a \o b \o c))
    /\ db = <<>>
    /\ ratings = <<>>
    /\ pg_up = FALSE
    /\ task = Idle
    /\ resp = NoResp
    /\ procs = <<>>
    /\ scored = NoScore
    /\ now = 0
    /\ extracted = NoExtract

LatestQueries ==
    {[DefaultQuery EXCEPT !.tab = tab, !.sort_by = sort_by, !.order = order,
                          !.min_trades = min_trades] :
        tab \in {"latest", NONE}, sort_by \in {"ninja_score", "total_backtests", "updated_at"},
        order \in {"desc", "asc"}, min_trades \in {0, 25}}

NextLatest == \E q \in LatestQueries : Query(q)

SpecLatest == InitLatest /\ [][NextLatest]_vars

\* C27: on the tab "latest" the ratings are put in descending updated_at before
\* the filters; that order survives the filters and the final sort as the
\* tie-break: items of equal sort key are in descending updated_at, items of
\* different sort keys are ordered by sort_by and order.
C27_LatestIsTieBreak ==
    (resp # NoResp /\ resp.q.tab = "latest") =>
        \A i \in DOMAIN resp.rankings : \A j \in DOMAIN resp.rankings :
            i < j =>
               LET ki == sort_key(resp.rankings[i], resp.q.sort_by)
                   kj == sort_key(resp.rankings[j], resp.q.sort_by)
               IN  IF ki = kj
                   THEN resp.rankings[i].updated_at >= resp.rankings[j].updated_at
                   ELSE IF Lower(resp.q.order) = "desc" THEN ki > kj ELSE ki < kj

\* two ratings of equal score and different times were returned on the tab,
\* the later one stored behind the earlier one in the index
C27_Witness ==
    /\ resp # NoResp
    /\ resp.q.tab = "latest"
    /\ resp.q.sort_by = "ninja_score"
    /\ Len(resp.rankings) = 3
    /\ \E i, j \in DOMAIN rankings.rankings :
          /\ i < j
          /\ rankings.rankings[i].ninja_score = rankings.rankings[j].ninja_score
          /\ rankings.rankings[i].updated_at < rankings.rankings[j].updated_at

-----------------------------------------------------------------------------
(* Two strategies of opposite results are rated by StrategyRatingSystem *)

R_good == MkRun(EWO, "5m", P1, 20, 16, 10 * Unit, 5 * Unit)
R_bad == MkRun(Momentum, "5m", P1, 20, 4, (0 - 10) * Unit, 5 * Unit)

NextDbScore ==
    \/ \E run \in {R_good, R_bad, R_win} : AppendMetrics(run)
    \/ Main_db

SpecDbScore == InitMedian /\ [][NextDbScore]_vars

\* C28: the score StrategyRatingSystem.save_to_database stores is computed from
\* the median metrics: a strategy whose medians are total profit 10 and win
\* rate 80 and a strategy whose medians are total profit -10 and win rate 20,
\* all inside the normalization ranges, do not get the same score.
C28_ScoreFollowsMedians ==
    \A n \in DOMAIN db : \A m \in DOMAIN db :
        (/\ db[n].median_total_profit_pct = 2 * (10 * Unit)
         /\ db[n].median_win_rate = 2 * (80 * Unit)
         /\ db[m].median_total_profit_pct = 2 * ((0 - 10) * Unit)
         /\ db[m].median_win_rate = 2 * (20 * Unit))
            => db[n].ninja_score # db[m].ninja_score

\* the same for the score computed from the medians under the names the score
\* function reads
ScoreOfStrippedMediansDiffers ==
    \A n \in DOMAIN db : \A m \in DOMAIN db :
        (/\ db[n].median_total_profit_pct = 2 * (10 * Unit)
         /\ db[n].median_win_rate = 2 * (80 * Unit)
         /\ db[m].median_total_profit_pct = 2 * ((0 - 10) * Unit)
         /\ db[m].median_win_rate = 2 * (20 * Unit))
            => calculate_ninja_score(
                   StripMedian([k \in MedianKeys |-> db[n][k]]), db[n].total_backtests)
               # calculate_ninja_score(
                   StripMedian([k \in MedianKeys |-> db[m][k]]), db[m].total_backtests)

-----------------------------------------------------------------------------
(* The name and the source file of a rating of the file backend *)

\* the strategy name of the runs a rating file was computed from
NameOfRuns(r) == r.all_backtests[1].strategy_name

\* C29: in a rating of the file backend strategy_name is the strategy name of
\* its runs, and the lookahead scan and strategy_hash are those of the source
\* file of that name, also when the name contains an underscore; the ratings
\* of two different strategies never rest on the same source file.
C29_RatingNamesItsStrategy ==
    /\ \A k \in DOMAIN ratings :
          /\ ratings[k].strategy_name = NameOfRuns(ratings[k])
          /\ ratings[k].strategy_hash
                = calculate_strategy_hash(strategies, NameOfRuns(ratings[k]))
          /\ ratings[k].lookahead_issues
                = check_lookahead_bias(strategies, NameOfRuns(ratings[k]))[2]
    /\ \A k1 \in DOMAIN ratings : \A k2 \in DOMAIN ratings :
          NameOfRuns(ratings[k1]) # NameOfRuns(ratings[k2])
             => ratings[k1].strategy_name # ratings[k2].strategy_name

\* the same for the strategies whose name has no underscore
RatingNamesItsStrategy_PlainNames ==
    \A k \in DOMAIN ratings :
        Len(NameOfRuns(ratings[k])) = 1 =>
           /\ ratings[k].strategy_name = NameOfRuns(ratings[k])
           /\ ratings[k].strategy_hash
                 = calculate_strategy_hash(strategies, NameOfRuns(ratings[k]))
           /\ ratings[k].lookahead_issues
                 = check_lookahead_bias(strategies, NameOfRuns(ratings[k]))[2]

-----------------------------------------------------------------------------
(* StrategyRatingSystemPostgreSQL.process_and_save_to_db statement by statement:
   one connection, one INSERT per strategy, one commit.  db is what other
   connections see; procs is the writer and the uncommitted table of its
   connection. *)

IdleTxn == [pc |-> "idle", metrics |-> <<>>, names |-> <<>>, conn |-> <<>>]

InitTxn ==
    /\ archives = <<>>
    /\ strategies = (EWO :> CleanSrc) @@ (Momentum :> CleanSrc)
    /\ db = <<>>
    /\ ratings = <<>>
    /\ rankings = NoFile
    /\ pg_up = TRUE
    /\ task = Idle
    /\ resp = NoResp
    /\ procs = IdleTxn
    /\ scored = NoScore
    /\ now = 0
    /\ extracted = NoExtract

\* statistics.median over a list with None, or normalize(None), raises TypeError
SaveRaises(metrics_list) == HasNone(metrics_list)

\* the same INSERT on a connection in autocommit mode: the row is visible at once
save_strategy_rating_autocommit(conn, strategy_name, metrics_list) ==
    [committed |-> Upsert(conn.committed, Row_pg(strategy_name, metrics_list), SetColumns_pg),
     pending |-> Upsert(conn.pending, Row_pg(strategy_name, metrics_list), SetColumns_pg)]

\* _save_strategy_rating_to_db: the INSERT runs inside the transaction of conn
save_strategy_rating_to_db(conn, strategy_name, metrics_list) ==
    [committed |-> conn.committed,
     pending |-> Upsert(conn.pending, Row_pg(strategy_name, metrics_list), SetColumns_pg)]

\* process_and_save_to_db: the archives are read and grouped, a connection is taken
BeginBatch_pg ==
    /\ procs.pc = "idle"
    /\ archives # <<>>
    /\ procs' = [pc |-> "save", metrics |-> archives, names |-> NameOrder(archives),
                 conn |-> [committed |-> db, pending |-> db]]
    /\ UNCHANGED <<archives, strategies, db, ratings, rankings, pg_up, task, resp, scored, now, extracted>>

\* one turn of the loop; an exception goes to conn.rollback() and is raised again
SaveStrategy_pg ==
    /\ procs.pc = "save"
    /\ procs.names # <<>>
    /\ LET strategy_name == Head(procs.names)
           metrics_list == RunsOfName(procs.metrics, strategy_name)
       IN  IF SaveRaises(metrics_list)
           THEN /\ procs' = IdleTxn
                /\ db' = procs.conn.committed
                /\ task' = [kind |-> "main_pg", error |-> TRUE, pg |-> TRUE]
           ELSE LET conn == save_strategy_rating_to_db(procs.conn, strategy_name, metrics_list)
                IN  /\ procs' = [procs EXCEPT !.names = Tail(@), !.conn = conn]
                    /\ db' = conn.committed
                    /\ UNCHANGED task
    /\ UNCHANGED <<archives, strategies, ratings, rankings, pg_up, resp, scored, now, extracted>>

\* conn.commit() after the last strategy
Commit_pg ==
    /\ procs.pc = "save"
    /\ procs.names = <<>>
    /\ db' = procs.conn.pending
    /\ procs' = IdleTxn
    /\ task' = [kind |-> "main_pg", error |-> FALSE, pg |-> TRUE]
    /\ UNCHANGED <<archives, strategies, ratings, rankings, pg_up, resp, scored, now, extracted>>

\* another connection reads the table
SelectRatings ==
    /\ resp' = [status_code |-> 200, rows |-> db]
    /\ UNCHANGED <<archives, strategies, db, ratings, rankings, pg_up, task, procs, scored, now, extracted>>

TxnRuns == {R_win, R_bad, R_null}

NextTxn ==
    \/ \E run \in TxnRuns : AppendMetrics(run)
    \/ BeginBatch_pg
    \/ SaveStrategy_pg
    \/ Commit_pg
    \/ SelectRatings

SpecTxn == InitTxn /\ [][NextTxn]_vars

\* C30: process_and_save_to_db is all-or-nothing: the table other connections
\* see changes only at the commit after the last strategy, and then to the
\* ratings of the whole batch at once; when the write of any strategy fails
\* the batch is rolled back, none of its ratings is visible and the ratings
\* of before are unchanged.
C30_BatchIsAtomic ==
    [][/\ db' # db =>
             /\ procs.pc = "save" /\ procs.names = <<>>
             /\ db' = process_and_save_to_db(db, procs.metrics)
       /\ (task' # task /\ task'.error) => db' = db]_vars

\* a batch wrote the rating of Momentum inside its transaction, failed at EWO
\* and was rolled back: the table still holds the rating of the batch before
C30_Witness ==
    /\ task.kind = "main_pg" /\ task.error
    /\ procs = IdleTxn
    /\ archives = <<R_bad, R_bad, R_null>>
    /\ DOMAIN db = {Momentum}
    /\ db[Momentum].total_backtests = 1

====
